---- MODULE Spec2Model ----
(***************************************************************************)
(* A model of the RISC-V simulator of TobiasKappe/riscv: the 32-bit        *)
(* bit-vector integer RiscInteger (data.py), the instruction formats and   *)
(* their encode/decode (instruction.py), the two-pass assembler            *)
(* (RiscInstruction.parse), the register/memory machine (machine.py) and   *)
(* the fetch-execute loop (simulator.py).                                  *)
(*                                                                         *)
(* Representation.  A RiscInteger is its list `bits`: a sequence of 32     *)
(* booleans, bit i of the source at position i+1.  A Python int that may   *)
(* leave the 32-bit range (an argument of the constructor, a result of     *)
(* to_int) is a pair [hi, lo] standing for hi * 65536 + lo with            *)
(* 0 <= lo < 65536, so that 2**32 and -2**32 - 1 are ordinary values.      *)
(* A call that may raise returns a record whose field err is "none" or     *)
(* the exception raised.                                                   *)
(***************************************************************************)
EXTENDS Integers, Sequences, FiniteSets, TLC

VARIABLES
    \* the integer workbench: operands, the operation applied, its outcome
    ia, ib, iop, ires,
    \* the codec workbench: an instruction object, a code word, the outcome of
    \* the last encode or decode, and how far the round trip has got
    cinstr, cword, cback, cstage,
    \* the RiscMachine object
    registers, program_counter, memory,
    protected_registers, protected_registers_written,
    \* the last call made on the machine and how it ended
    lastop,
    \* the number of calls made on the machine
    opcount,
    \* the assembler: the source handed to RiscInstruction.parse, how far the
    \* call has got, what its first pass built and how it ended
    lines, astage, locations, lines_without_labels, offset, aerr,
    \* the RiscSimulator object: its instructions, the position of simulate(),
    \* the number of iterations of its loop made, the value put in x1
    instructions, simstate, steps, finput

intVars == <<ia, ib, iop, ires>>
machineVars == <<registers, program_counter, memory,
                 protected_registers, protected_registers_written, lastop,
                 opcount>>
codecVars == <<cinstr, cword, cback, cstage>>
asmVars == <<lines, astage, locations, lines_without_labels, offset, aerr>>
simVars == <<instructions, simstate, steps, finput>>
progVars == <<asmVars, simVars>>
vars == <<intVars, codecVars, machineVars, progVars>>

----------------------------------------------------------------------------
(* Python integers of unbounded size, as pairs.                            *)

Half == 65536

Py(n) == [hi |-> n \div Half, lo |-> n % Half]

\* value & 1
PyAnd1(p) == p.lo % 2

\* value >> 1 (arithmetic, rounds towards minus infinity)
PyShr1(p) == [hi |-> p.hi \div 2, lo |-> (p.lo \div 2) + (p.hi % 2) * (Half \div 2)]

PyLess(p, q) == p.hi < q.hi \/ (p.hi = q.hi /\ p.lo < q.lo)

\* -2**31, 2**31 and 2**32
PyMinSigned == [hi |-> -32768, lo |-> 0]
PyTwoTo31 == [hi |-> 32768, lo |-> 0]
PyTwoTo32 == [hi |-> 65536, lo |-> 0]

\* the value of a pair that fits a machine integer of the checker
Native(p) == p.hi * Half + p.lo

----------------------------------------------------------------------------
(* RiscInteger (data.py).                                                  *)

WordSize == 32

NoBits == <<>>

Ok(bits) == [err |-> "none", bits |-> bits]
Raise(e) == [err |-> e, bits |-> NoBits]

\* the loop `bits.append(value & 1 > 0); value = value >> 1`, count times
RECURSIVE IntToBits(_, _)
IntToBits(value, count) ==
    IF count = 0 THEN <<>>
    ELSE <<PyAnd1(value) > 0>> \o IntToBits(PyShr1(value), count - 1)

RangeCheckOff(value, signed) ==
    IF signed /\ (PyLess(value, PyMinSigned) \/ PyLess(PyTwoTo31, value))
    THEN "RiscIntegerException: out of range for a signed RISC integer"
    ELSE IF ~signed /\ (PyLess(value, Py(0)) \/ PyLess(PyTwoTo32, value))
    THEN "RiscIntegerException: out of range for an unsigned RISC integer"
    ELSE "none"

\* the two range tests of RiscInteger.__init__(value: int, signed)
RangeCheck(value, signed) ==
    IF signed /\ (PyLess(value, PyMinSigned) \/ ~PyLess(value, PyTwoTo31))
    THEN "RiscIntegerException: out of range for a signed RISC integer"
    ELSE IF ~signed /\ (PyLess(value, Py(0)) \/ ~PyLess(value, PyTwoTo32))
    THEN "RiscIntegerException: out of range for an unsigned RISC integer"
    ELSE "none"

\* RiscInteger(value, signed)
RiscIntegerInt(value, signed) ==
    LET e == RangeCheck(value, signed)
    IN  IF e # "none" THEN Raise(e) ELSE Ok(IntToBits(value, WordSize))

\* RiscInteger(n) for an in-range literal n of the source
Word(n) == IntToBits(Py(n), WordSize)

sign_bit(a) == a[32]

Xor(p, q) == p # q

AddNoCarry(a, b) == [i \in 1..WordSize |-> Xor(a[i], b[i])]

\* RiscInteger.__add__(self, other: RiscInteger): carry[i] is the carry after
\* the iteration for bit i (1-based position), carry[0] the initial False
Add(a, b) ==
    LET carry[i \in 0..WordSize] ==
            IF i = 0 THEN FALSE
            ELSE (a[i] /\ b[i]) \/ (carry[i - 1] /\ Xor(a[i], b[i]))
    IN  [i \in 1..WordSize |-> Xor(Xor(a[i], b[i]), carry[i - 1])]

NegComplementOnly(a) == [i \in 1..WordSize |-> ~a[i]]

\* RiscInteger.__neg__
Neg(a) == Add([i \in 1..WordSize |-> ~a[i]], Word(1))

\* RiscInteger.__sub__
Sub(a, b) == Add(a, Neg(b))

\* the scan of compare_unsigned from bit i (1-based position) downwards
RECURSIVE CompareFrom(_, _, _)
CompareFrom(a, b, i) ==
    IF i = 0 THEN FALSE
    ELSE IF ~a[i] /\ b[i] THEN TRUE
    ELSE IF a[i] /\ ~b[i] THEN FALSE
    ELSE CompareFrom(a, b, i - 1)

\* RiscInteger.compare_unsigned
compare_unsigned(a, b) == CompareFrom(a, b, WordSize)

LtUnsignedOnly(a, b) == compare_unsigned(a, b)

\* RiscInteger.__lt__(self, other: RiscInteger)
Lt(a, b) == Xor(Xor(compare_unsigned(a, b), sign_bit(a)), sign_bit(b))

\* RiscInteger.__ge__
Ge(a, b) == ~Lt(a, b)

\* the sum of 2**(i - from) over the set bits i (0-based) in from..to
RECURSIVE BitSum(_, _, _)
BitSum(a, from, to) ==
    IF to < from THEN 0
    ELSE (IF a[to + 1] THEN 2 ^ (to - from) ELSE 0) + BitSum(a, from, to - 1)

\* RiscInteger.to_int(signed): bits 0..30, then the sign bit's share
to_int(a, signed) ==
    [hi |-> BitSum(a, 16, 30)
            + (IF sign_bit(a) THEN (IF signed THEN -32768 ELSE 32768) ELSE 0),
     lo |-> BitSum(a, 0, 15)]

\* RiscInteger.__eq__
Eq(a, b) == a = b

----------------------------------------------------------------------------
(* The integer workbench: the constructor and the operators applied to     *)
(* operands drawn around the boundaries of the signed and unsigned ranges. *)

Radius == 2

\* the multiples of 65536 around which operands are drawn:
\* -2**32, -2**31, -2**16, 0, 2**16, 2**31, 2**32
Pivots == {-65536, -32768, -1, 0, 1, 32768, 65536}

IntSamples ==
    {[hi |-> h + (d \div Half), lo |-> d % Half] :
        h \in Pivots, d \in (0 - Radius)..Radius}

NoInt == Py(0)

IntResult(e, bits, int, bool) ==
    [err |-> e, bits |-> bits, int |-> int, bool |-> bool]

IntIdle ==
    /\ ia = NoInt /\ ib = NoInt /\ iop = "idle"
    /\ ires = IntResult("none", NoBits, NoInt, FALSE)

IntInit ==
    /\ ia \in IntSamples
    /\ ib \in IntSamples
    /\ iop = "none"
    /\ ires = IntResult("none", NoBits, NoInt, FALSE)

\* w = RiscInteger(ia, signed); w.to_int(signed)
IntConstruct(signed) ==
    LET w == RiscIntegerInt(ia, signed) IN
    /\ iop \notin {"idle"}
    /\ iop' = (IF signed THEN "ctor_signed" ELSE "ctor_unsigned")
    /\ ires' = IF w.err # "none"
               THEN IntResult(w.err, NoBits, NoInt, FALSE)
               ELSE IntResult("none", w.bits, to_int(w.bits, signed), FALSE)
    /\ UNCHANGED <<ia, ib>>

\* the outcome of `RiscInteger(x) op RiscInteger(y)`: the exception of the
\* first constructor that raises, or what the operator gives
Binary(op, x, y) ==
    LET wa == RiscIntegerInt(x, TRUE)
        wb == RiscIntegerInt(y, TRUE)
    IN  IF wa.err # "none" THEN IntResult(wa.err, NoBits, NoInt, FALSE)
        ELSE IF wb.err # "none" THEN IntResult(wb.err, NoBits, NoInt, FALSE)
        ELSE CASE op = "add" ->
                    LET r == Add(wa.bits, wb.bits)
                    IN IntResult("none", r, to_int(r, TRUE), FALSE)
               [] op = "lt" ->
                    IntResult("none", NoBits, NoInt, Lt(wa.bits, wb.bits))
               [] op = "ge" ->
                    IntResult("none", NoBits, NoInt, Ge(wa.bits, wb.bits))

\* RiscInteger(ia) + RiscInteger(ib)
IntAdd ==
    /\ iop \notin {"idle"}
    /\ iop' = "add"
    /\ ires' = Binary("add", ia, ib)
    /\ UNCHANGED <<ia, ib>>

\* RiscInteger(ia) < RiscInteger(ib)
IntLt ==
    /\ iop \notin {"idle"}
    /\ iop' = "lt"
    /\ ires' = Binary("lt", ia, ib)
    /\ UNCHANGED <<ia, ib>>

\* RiscInteger(ia) >= RiscInteger(ib)
IntGe ==
    /\ iop \notin {"idle"}
    /\ iop' = "ge"
    /\ ires' = Binary("ge", ia, ib)
    /\ UNCHANGED <<ia, ib>>

IntNext ==
    \/ \E signed \in BOOLEAN :
            IntConstruct(signed) /\ UNCHANGED <<codecVars, machineVars, progVars>>
    \/ IntAdd /\ UNCHANGED <<codecVars, machineVars, progVars>>
    \/ IntLt /\ UNCHANGED <<codecVars, machineVars, progVars>>
    \/ IntGe /\ UNCHANGED <<codecVars, machineVars, progVars>>

----------------------------------------------------------------------------
(* Properties of RiscInteger, checked under SpecInt.                       *)

InSigned(p) == p.hi \in -32768..32767
InUnsigned(p) == p.hi \in 0..65535

\* (p + q) mod 2**32, read as a signed 32-bit value
WrapSum(p, q) ==
    LET lo == p.lo + q.lo
        hi == p.hi + q.hi + (lo \div Half)
    IN  [hi |-> ((hi + 32768) % Half) - 32768, lo |-> lo % Half]

\* C3: for all a, b in the signed range, RiscInteger(a) + RiscInteger(b) raises
\* nothing and is the RiscInteger of (a + b) mod 2**32 read as signed.
C3_AddWraps ==
    (iop = "add" /\ InSigned(ia) /\ InSigned(ib)) =>
        /\ ires.err = "none"
        /\ Len(ires.bits) = WordSize
        /\ ires.int = WrapSum(ia, ib)
        /\ ires.bits = IntToBits(WrapSum(ia, ib), WordSize)

\* 2**31 - 1 + 1 has been added and gave -2**31
C3_Witness ==
    /\ iop = "add"
    /\ ia = [hi |-> 32767, lo |-> 65535]
    /\ ib = Py(1)
    /\ ires.int = PyMinSigned

\* C4: for all a, b in the signed range, RiscInteger(a) < RiscInteger(b) is
\* true exactly when a < b, and >= is exactly the negation of <.
C4_SignedCompare ==
    /\ (iop = "lt" /\ InSigned(ia) /\ InSigned(ib)) =>
            (ires.err = "none" /\ ires.bool = PyLess(ia, ib))
    /\ (iop = "ge" /\ InSigned(ia) /\ InSigned(ib)) =>
            (ires.err = "none" /\ ires.bool = ~PyLess(ia, ib))

\* -1 has been compared with 1 (mixed signs) and found smaller
C4_Witness ==
    /\ iop = "lt"
    /\ ia = [hi |-> -1, lo |-> 65535]
    /\ ib = Py(1)
    /\ ires.bool

\* C10: RiscInteger(value, signed) raises exactly when value is outside
\* [-2**31, 2**31 - 1] (signed) or [0, 2**32 - 1] (unsigned); otherwise it has
\* 32 bits and to_int(signed) gives value back.
C10_FromIntRange ==
    /\ iop = "ctor_signed" =>
            /\ (ires.err # "none") <=> ~InSigned(ia)
            /\ InSigned(ia) => (Len(ires.bits) = WordSize /\ ires.int = ia)
    /\ iop = "ctor_unsigned" =>
            /\ (ires.err # "none") <=> ~InUnsigned(ia)
            /\ InUnsigned(ia) => (Len(ires.bits) = WordSize /\ ires.int = ia)

\* 2**32 - 1 has been built unsigned and read back
C10_Witness ==
    /\ iop = "ctor_unsigned"
    /\ ia = [hi |-> 65535, lo |-> 65535]
    /\ ires.err = "none"
    /\ ires.int = ia

----------------------------------------------------------------------------
(* Negation and subtraction on the operands of the integer workbench.      *)

\* the outcome of `-RiscInteger(x)`
Negated(x) ==
    LET wa == RiscIntegerInt(x, TRUE)
    IN  IF wa.err # "none" THEN IntResult(wa.err, NoBits, NoInt, FALSE)
        ELSE IntResult("none", Neg(wa.bits), to_int(Neg(wa.bits), TRUE), FALSE)

\* the outcome of `RiscInteger(x) - RiscInteger(y)`
Subtracted(x, y) ==
    LET wa == RiscIntegerInt(x, TRUE)
        wb == RiscIntegerInt(y, TRUE)
    IN  IF wa.err # "none" THEN IntResult(wa.err, NoBits, NoInt, FALSE)
        ELSE IF wb.err # "none" THEN IntResult(wb.err, NoBits, NoInt, FALSE)
        ELSE IntResult("none", Sub(wa.bits, wb.bits),
                       to_int(Sub(wa.bits, wb.bits), TRUE), FALSE)

\* -RiscInteger(ia)
IntNeg ==
    /\ iop \notin {"idle"}
    /\ iop' = "neg"
    /\ ires' = Negated(ia)
    /\ UNCHANGED <<ia, ib>>

\* RiscInteger(ia) - RiscInteger(ib)
IntSub ==
    /\ iop \notin {"idle"}
    /\ iop' = "sub"
    /\ ires' = Subtracted(ia, ib)
    /\ UNCHANGED <<ia, ib>>

NegSubNext ==
    \/ IntNeg /\ UNCHANGED <<codecVars, machineVars, progVars>>
    \/ IntSub /\ UNCHANGED <<codecVars, machineVars, progVars>>

\* the Python integer -p
Minus(p) ==
    IF p.lo = 0 THEN [hi |-> 0 - p.hi, lo |-> 0]
    ELSE [hi |-> 0 - p.hi - 1, lo |-> Half - p.lo]

\* the signed value of the bitwise complement of the word of p: -p - 1
ComplementValue(p) == [hi |-> 0 - p.hi - 1, lo |-> Half - 1 - p.lo]

\* C22: for all a, b in the signed range, -a is the bitwise complement of a
\* plus one, which is (-a) mod 2**32 read as signed, and a - b is a + (-b),
\* which is (a - b) mod 2**32 read as signed; neither raises, so that
\* -0 = 0, -(-2**31) = -2**31, -2**31 - 1 = 2**31 - 1 and
\* 2**31 - 1 - (-1) = -2**31.
C22_NegSub ==
    /\ (iop = "neg" /\ InSigned(ia)) =>
          /\ ires.err = "none"
          /\ ires.int = WrapSum(ComplementValue(ia), Py(1))
          /\ ires.int = WrapSum(Py(0), Minus(ia))
    /\ (iop = "sub" /\ InSigned(ia) /\ InSigned(ib)) =>
          /\ ires.err = "none"
          /\ ires.int = WrapSum(ia, Minus(ib))
          /\ ires.bits = Binary("add", ia, WrapSum(Py(0), Minus(ib))).bits

\* -2**31 - 1 has wrapped to 2**31 - 1
C22_Witness ==
    /\ iop = "sub"
    /\ ia = PyMinSigned
    /\ ib = Py(1)
    /\ ires.int = [hi |-> 32767, lo |-> 65535]

----------------------------------------------------------------------------
(* RiscInteger built from a pattern: RiscInteger.__init__(pattern: list).  *)

\* the shapes of a pattern element
FBool(b) == [t |-> "bool", bits |-> <<b>>, value |-> 0, length |-> 1]
FList(bs) == [t |-> "list", bits |-> bs, value |-> 0, length |-> Len(bs)]
FInt(v, n) == [t |-> "int", bits |-> <<>>, value |-> v, length |-> n]
FWord(w, n) == [t |-> "word", bits |-> w, value |-> 0, length |-> n]
\* an element that is none of the above, such as a bare int
FOther(v) == [t |-> "other", bits |-> <<>>, value |-> v, length |-> 0]

Min(x, y) == IF x < y THEN x ELSE y
Max(x, y) == IF x < y THEN y ELSE x

\* the Python slice list[lo:hi] for 0 <= lo, 0 <= hi
Slice(list, lo, hi) == SubSeq(list, lo + 1, Min(hi, Len(list)))

\* the bits one recognised element appends
FragmentBits(f) ==
    CASE f.t = "bool" -> f.bits
      [] f.t = "list" -> f.bits
      [] f.t = "int" -> IntToBits(Py(f.value), Max(f.length, 0))
      [] f.t = "word" -> IF f.length >= 0 THEN Slice(f.bits, 0, f.length)
                         ELSE Slice(f.bits, 0, Max(Len(f.bits) + f.length, 0))

RECURSIVE PatternBits(_, _)
PatternBits(pattern, bits) ==
    IF pattern = <<>> THEN Ok(bits)
    ELSE IF Head(pattern).t = "other"
    THEN Raise("RiscIntegerException: Cannot decode as RISC integer part")
    ELSE PatternBits(Tail(pattern), bits \o FragmentBits(Head(pattern)))

\* RiscInteger(pattern)
RiscIntegerPattern(pattern) ==
    LET r == PatternBits(pattern, <<>>)
    IN  IF r.err # "none" THEN r
        ELSE IF Len(r.bits) # WordSize
        THEN Raise("RiscIntegerException: Bitvector must be 32 bits long")
        ELSE r

\* code[lo:hi]: the bits lo..hi-1 of a RiscInteger read as an unsigned field
GetItem(code, lo, hi) == BitSum(code, lo, hi - 1)

\* the Python list `list * n`
RECURSIVE Repeat(_, _)
Repeat(list, n) == IF n <= 0 THEN <<>> ELSE list \o Repeat(list, n - 1)

\* a Python index into list, as a slice bound: negative counts from the end
Bound(list, i) ==
    IF i < 0 THEN Max(i + Len(list), 0) ELSE Min(i, Len(list))

\* the Python slice list[lo:hi] for any lo, hi
PySlice(list, lo, hi) == SubSeq(list, Bound(list, lo) + 1, Bound(list, hi))

\* a Python list of bools as a pattern
Bools(list) == [k \in 1..Len(list) |-> FBool(list[k])]

\* RiscInteger.__rshift__
Rshift(a, positions) ==
    RiscIntegerPattern(
        Bools(PySlice(a, Min(positions, 32), Len(a))
              \o Repeat(<<FALSE>>, Min(positions, 32))))

LshiftNoSpecialCase(a, positions) ==
    RiscIntegerPattern(
        Bools(Repeat(<<FALSE>>, Min(positions, 32))
              \o PySlice(a, 0, 0 - Min(positions, 32))))

\* RiscInteger.__lshift__
Lshift(a, positions) ==
    IF positions = 0 THEN Ok(a)
    ELSE RiscIntegerPattern(
            Bools(Repeat(<<FALSE>>, Min(positions, 32))
                  \o PySlice(a, 0, 0 - Min(positions, 32))))

----------------------------------------------------------------------------
(* RiscInteger(pattern) called on patterns of a few fragments.             *)

\* the longest pattern built
MaxFragments == 3

\* fragments of every shape, with widths inside and outside 0..32
FragmentSamples ==
    { FBool(TRUE),
      FList(Repeat(<<FALSE>>, 32)),
      FList(Repeat(<<TRUE, FALSE>>, 8)),
      FList(Repeat(<<TRUE>>, 15)),
      FInt(5, 16),
      FInt(-2, 15),
      FInt(123, 32),
      FInt(7, -3),
      FWord(Word(123), 32),
      FWord(Word(-6), 16),
      FWord(Word(5), 40),
      FWord(Word(-1), -1),
      FOther(123) }

RECURSIVE PatternsUpTo(_, _)
PatternsUpTo(S, n) ==
    IF n = 0 THEN {<<>>}
    ELSE {<<>>} \cup {<<x>> \o q : x \in S, q \in PatternsUpTo(S, n - 1)}

PatternInit ==
    /\ ia \in PatternsUpTo(FragmentSamples, MaxFragments)
    /\ ib = NoInt
    /\ iop = "none"
    /\ ires = IntResult("none", NoBits, NoInt, FALSE)

\* the outcome r of a constructor or operator that gives a RiscInteger
Gives(r) == IntResult(r.err, r.bits, NoInt, FALSE)

\* RiscInteger(ia)
PatternConstruct ==
    /\ iop = "none"
    /\ iop' = "ctor_pattern"
    /\ ires' = Gives(RiscIntegerPattern(ia))
    /\ UNCHANGED <<ia, ib>>

PatternNext ==
    PatternConstruct /\ UNCHANGED <<codecVars, machineVars, progVars>>

\* the fragment has one of the four recognised shapes
Recognised(f) == f.t # "other"

\* the sum of the lengths the fragments of a pattern declare
RECURSIVE DeclaredLength(_)
DeclaredLength(pattern) ==
    IF pattern = <<>> THEN 0
    ELSE Head(pattern).length + DeclaredLength(Tail(pattern))

\* bit k of the two's complement form of the integer v
IntBit(v, k) ==
    IF k >= 30 THEN v < 0 ELSE ((v \div (2 ^ k)) % 2) = 1

\* the low `length` bits of a fragment, bit 0 first
LowBits(f) ==
    CASE f.t = "int" -> [k \in 1..f.length |-> IntBit(f.value, k - 1)]
      [] f.t = "word" ->
            [k \in 1..f.length |-> IF k <= Len(f.bits) THEN f.bits[k] ELSE FALSE]
      [] OTHER -> f.bits

RECURSIVE Concatenation(_)
Concatenation(pattern) ==
    IF pattern = <<>> THEN <<>>
    ELSE LowBits(Head(pattern)) \o Concatenation(Tail(pattern))

\* C11: RiscInteger(pattern) succeeds exactly when every fragment has one of
\* the four recognised shapes and the declared fragment lengths sum to 32;
\* the result is then the in-order concatenation of the fragments from bit 0,
\* a pair giving its low `width` bits; a pattern with an unrecognised
\* fragment fails with the "Cannot decode" error whatever its total length.
C11_FromFragments ==
    iop = "ctor_pattern" =>
        /\ (ires.err = "none") <=>
              /\ \A k \in 1..Len(ia) : Recognised(ia[k])
              /\ DeclaredLength(ia) = WordSize
        /\ ires.err = "none" => ires.bits = Concatenation(ia)
        /\ (\E k \in 1..Len(ia) : ~Recognised(ia[k])) =>
              ires.err = "RiscIntegerException: Cannot decode as RISC integer part"

----------------------------------------------------------------------------
(* Shifts of a RiscInteger by a few amounts.                               *)

\* the largest shift amount tried
MaxShift == 34

ShiftWords ==
    { Word(0), Word(1), Word(-1), Word(-6), Word(123),
      Repeat(<<TRUE, FALSE>>, 16), Repeat(<<FALSE>>, 31) \o <<TRUE>> }

ShiftInit ==
    /\ ia \in ShiftWords
    /\ ib \in -1..MaxShift
    /\ iop = "none"
    /\ ires = IntResult("none", NoBits, NoInt, FALSE)

\* ia << ib
ShiftLeft ==
    /\ iop = "none"
    /\ iop' = "lshift"
    /\ ires' = Gives(Lshift(ia, ib))
    /\ UNCHANGED <<ia, ib>>

\* ia >> ib
ShiftRight ==
    /\ iop = "none"
    /\ iop' = "rshift"
    /\ ires' = Gives(Rshift(ia, ib))
    /\ UNCHANGED <<ia, ib>>

ShiftNext ==
    \/ ShiftLeft /\ UNCHANGED <<codecVars, machineVars, progVars>>
    \/ ShiftRight /\ UNCHANGED <<codecVars, machineVars, progVars>>

\* bit i (0..31) of a word, FALSE outside
BitAt(a, i) == IF i >= 0 /\ i < WordSize THEN a[i + 1] ELSE FALSE

\* C12: a << 0 and a >> 0 equal a; for n >= 32 both shifts give the all-zero
\* word; for n in 1..31 bit i of a << n is a[i-n] (zero for i < n) and bit i
\* of a >> n is a[i+n] (zero for i+n > 31); the result always has 32 bits.
C12_Shifts ==
    (iop \in {"lshift", "rshift"} /\ ib >= 0) =>
        /\ ires.err = "none"
        /\ Len(ires.bits) = WordSize
        /\ ib = 0 => ires.bits = ia
        /\ ib >= WordSize => ires.bits = Repeat(<<FALSE>>, WordSize)
        /\ iop = "lshift" =>
              \A i \in 0..(WordSize - 1) : ires.bits[i + 1] = BitAt(ia, i - ib)
        /\ iop = "rshift" =>
              \A i \in 0..(WordSize - 1) : ires.bits[i + 1] = BitAt(ia, i + ib)

C12_Witness ==
    /\ iop = "lshift"
    /\ ib = 33
    /\ ia = Word(-1)
    /\ ires.bits = Word(0)

----------------------------------------------------------------------------
(* Instructions (instruction.py, implementation/).                         *)

Mnemonics == {"add", "addi", "beq", "bge", "blt", "lw", "sw"}

Format(m) ==
    CASE m = "add" -> "R"
      [] m \in {"addi", "lw"} -> "I"
      [] m = "sw" -> "S"
      [] m \in {"beq", "bge", "blt"} -> "SB"

OPCODE(m) ==
    CASE m = "add" -> 51      \* 0b0110011
      [] m = "addi" -> 19     \* 0b0010011
      [] m = "lw" -> 3        \* 0b0000011
      [] m = "sw" -> 35       \* 0b0100011
      [] m \in {"beq", "bge", "blt"} -> 99   \* 0b1100011

FUNCT3(m) ==
    CASE m \in {"add", "addi", "beq"} -> 0
      [] m \in {"lw", "sw"} -> 2
      [] m = "blt" -> 4
      [] m = "bge" -> 5

\* only the R-type instruction add has one
FUNCT7(m) == 0

NoReg == -1

Instr(m, rd, rs1, rs2, n, off) ==
    [mnemonic |-> m, rd |-> rd, rs1 |-> rs1, rs2 |-> rs2,
     n |-> n, offset |-> off]

NoInstr == Instr("none", NoReg, NoReg, NoReg, NoBits, NoBits)

\* the initialize methods: direct construction from fields, in the order of
\* each format's parameters
RInitialize(m, rd, rs1, rs2) == Instr(m, rd, rs1, rs2, NoBits, NoBits)
IInitialize(m, rd, rs1, n) == Instr(m, rd, rs1, NoReg, n, NoBits)
SBInitialize(m, rs1, rs2, off) == Instr(m, NoReg, rs1, rs2, NoBits, off)
SInitialize(m, rs1, rs2, n) == Instr(m, NoReg, rs1, rs2, n, NoBits)

Initialize(m, x, y, z, imm) ==
    CASE Format(m) = "R" -> RInitialize(m, x, y, z)
      [] Format(m) = "I" -> IInitialize(m, x, y, imm)
      [] Format(m) = "SB" -> SBInitialize(m, x, y, imm)
      [] Format(m) = "S" -> SInitialize(m, x, y, imm)

\* RTypeRiscInstruction.encode
REncode(i) ==
    RiscIntegerPattern(<<
        FInt(OPCODE(i.mnemonic), 7),
        FInt(i.rd, 5),
        FInt(FUNCT3(i.mnemonic), 3),
        FInt(i.rs1, 5),
        FInt(i.rs2, 5),
        FInt(FUNCT7(i.mnemonic), 7) >>)

IEncodeShort(i) ==
    RiscIntegerPattern(<<
        FInt(OPCODE(i.mnemonic), 7),
        FInt(i.rd, 5),
        FInt(FUNCT3(i.mnemonic), 3),
        FInt(i.rs1, 5),
        FWord(i.n, 11),
        FBool(FALSE) >>)

\* ITypeRiscInstruction.encode
IEncode(i) ==
    RiscIntegerPattern(<<
        FInt(OPCODE(i.mnemonic), 7),
        FInt(i.rd, 5),
        FInt(FUNCT3(i.mnemonic), 3),
        FInt(i.rs1, 5),
        FWord(i.n, 12) >>)

SBEncodeInOrder(i, swirl) ==
    RiscIntegerPattern(<<
        FInt(OPCODE(i.mnemonic), 7),
        FList(Slice(i.offset, 1, 6)),
        FInt(FUNCT3(i.mnemonic), 3),
        FInt(i.rs1, 5),
        FInt(i.rs2, 5),
        FList(Slice(i.offset, 6, 13)) >>)

\* SBTypeRiscInstruction.encode
SBEncode(i, swirl) ==
    IF swirl
    THEN RiscIntegerPattern(<<
        FInt(OPCODE(i.mnemonic), 7),
        FList(Slice(i.offset, 11, 12)),
        FList(Slice(i.offset, 1, 5)),
        FInt(FUNCT3(i.mnemonic), 3),
        FInt(i.rs1, 5),
        FInt(i.rs2, 5),
        FList(Slice(i.offset, 5, 11)),
        FList(Slice(i.offset, 12, 13)) >>)
    ELSE RiscIntegerPattern(<<
        FInt(99, 7),
        FList(Slice(i.offset, 1, 6)),
        FInt(FUNCT3(i.mnemonic), 3),
        FInt(i.rs1, 5),
        FInt(i.rs2, 5),
        FList(Slice(i.offset, 6, 13)) >>)

SEncodeShort(i) ==
    RiscIntegerPattern(<<
        FInt(OPCODE(i.mnemonic), 7),
        FList(Slice(i.n, 0, 5)),
        FInt(FUNCT3(i.mnemonic), 3),
        FInt(i.rs1, 5),
        FInt(i.rs2, 5),
        FList(Slice(i.n, 5, 11)),
        FBool(FALSE) >>)

\* STypeRiscInstruction.encode
SEncode(i) ==
    RiscIntegerPattern(<<
        FInt(OPCODE(i.mnemonic), 7),
        FList(Slice(i.n, 0, 5)),
        FInt(FUNCT3(i.mnemonic), 3),
        FInt(i.rs1, 5),
        FInt(i.rs2, 5),
        FList(Slice(i.n, 5, 12)) >>)

\* instr.encode() / instr.encode(swirl) of a branch
Encode(i, swirl) ==
    CASE Format(i.mnemonic) = "R" -> REncode(i)
      [] Format(i.mnemonic) = "I" -> IEncode(i)
      [] Format(i.mnemonic) = "SB" -> SBEncode(i, swirl)
      [] Format(i.mnemonic) = "S" -> SEncode(i)

\* the outcome of building an instruction: an exception or the object
Built(i) == [err |-> "none", instr |-> i]
Failed(e) == [err |-> e, instr |-> NoInstr]

RDecodeAnyFunct7(m, code) ==
    IF GetItem(code, 12, 15) # FUNCT3(m)
    THEN Failed("RiscInstructionException: Wrong funct3")
    ELSE Built(Instr(m, GetItem(code, 7, 12), GetItem(code, 15, 20),
                     GetItem(code, 20, 25), NoBits, NoBits))

\* RTypeRiscInstruction.decode
RDecode(m, code) ==
    IF GetItem(code, 12, 15) # FUNCT3(m)
    THEN Failed("RiscInstructionException: Wrong funct3")
    ELSE IF GetItem(code, 25, 32) # FUNCT7(m)
    THEN Failed("RiscInstructionException: Wrong funct7")
    ELSE Built(Instr(m, GetItem(code, 7, 12), GetItem(code, 15, 20),
                     GetItem(code, 20, 25), NoBits, NoBits))

IDecodeZeroExtended(m, code) ==
    IF GetItem(code, 12, 15) # FUNCT3(m)
    THEN Failed("RiscInstructionException: Wrong funct3")
    ELSE LET n == RiscIntegerPattern(<<
                      FList(Slice(code, 20, 32)),
                      FList(Repeat(<<FALSE>>, 20)) >>)
         IN  IF n.err # "none" THEN Failed(n.err)
             ELSE Built(Instr(m, GetItem(code, 7, 12), GetItem(code, 15, 20),
                              NoReg, n.bits, NoBits))

\* ITypeRiscInstruction.decode
IDecode(m, code) ==
    IF GetItem(code, 12, 15) # FUNCT3(m)
    THEN Failed("RiscInstructionException: Wrong funct3")
    ELSE LET n == RiscIntegerPattern(<<
                      FList(Slice(code, 20, 32)),
                      FList(Repeat(Slice(code, 31, 32), 20)) >>)
         IN  IF n.err # "none" THEN Failed(n.err)
             ELSE Built(Instr(m, GetItem(code, 7, 12), GetItem(code, 15, 20),
                              NoReg, n.bits, NoBits))

SBDecodePlain(m, code, swirl) ==
    LET off == RiscIntegerPattern(<<
                      FList(<<FALSE>>),
                      FList(Slice(code, 7, 12)),
                      FList(Slice(code, 25, 31)),
                      FList(Repeat(Slice(code, 31, 32), 20)) >>)
    IN  IF off.err # "none" THEN Failed(off.err)
        ELSE IF GetItem(code, 12, 15) # FUNCT3(m)
        THEN Failed("RiscInstructionException: Wrong funct3")
        ELSE Built(Instr(m, NoReg, GetItem(code, 15, 20),
                         GetItem(code, 20, 25), NoBits, off.bits))

\* SBTypeRiscInstruction.decode
SBDecode(m, code, swirl) ==
    LET off ==
            IF swirl
            THEN RiscIntegerPattern(<<
                     FList(<<FALSE>>),
                     FList(Slice(code, 8, 12)),
                     FList(Slice(code, 25, 31)),
                     FList(Slice(code, 7, 8)),
                     FList(Repeat(Slice(code, 31, 32), 20)) >>)
            ELSE RiscIntegerPattern(<<
                     FOther(GetItem(code, 7, 12)),
                     FOther(GetItem(code, 25, 32)),
                     FOther(GetItem(code, 31, 32) * 20) >>)
    IN  IF off.err # "none" THEN Failed(off.err)
        ELSE IF GetItem(code, 12, 15) # FUNCT3(m)
        THEN Failed("RiscInstructionException: Wrong funct3")
        ELSE Built(Instr(m, NoReg, GetItem(code, 15, 20),
                         GetItem(code, 20, 25), NoBits, off.bits))

\* STypeRiscInstruction.decode
SDecode(m, code) ==
    LET n == RiscIntegerPattern(<<
                 FList(Slice(code, 7, 12)),
                 FList(Slice(code, 25, 32)),
                 FList(Repeat(Slice(code, 31, 32), 20)) >>)
    IN  IF n.err # "none" THEN Failed(n.err)
        ELSE IF GetItem(code, 12, 15) # FUNCT3(m)
        THEN Failed("RiscInstructionException: Wrong funct3")
        ELSE Built(Instr(m, NoReg, GetItem(code, 15, 20),
                         GetItem(code, 20, 25), n.bits, NoBits))

\* RiscInstruction.__init__(code): the opcode test, then the format's decode
Decode(m, code, swirl) ==
    IF GetItem(code, 0, 7) # OPCODE(m)
    THEN Failed("RiscInstructionException: Wrong opcode")
    ELSE CASE Format(m) = "R" -> RDecode(m, code)
           [] Format(m) = "I" -> IDecode(m, code)
           [] Format(m) = "SB" -> SBDecode(m, code, swirl)
           [] Format(m) = "S" -> SDecode(m, code)

----------------------------------------------------------------------------
(* The codec workbench: an instruction built from fields is encoded and    *)
(* the word decoded again; a word is decoded and the instruction encoded   *)
(* again.                                                                  *)

\* register indices used as operands
RegSamples == {0, 10, 21, 31}

OneHot(k) == [i \in 1..WordSize |-> i = k + 1]
AllBut(k) == [i \in 1..WordSize |-> i # k + 1]

\* immediates and offsets: every single bit set, every single bit clear, and
\* the values of the tests with the ends of the 12- and 13-bit ranges
ImmSamples ==
    {OneHot(k) : k \in 0..31} \cup {AllBut(k) : k \in 0..31}
    \cup {Word(v) : v \in {0, -1, 1755, -586, 1365, -2928,
                            2047, -2048, 2048, -2049, 4094, -4096, 4096}}

\* code words, put together field by field
OpcodeSamples == {51, 19, 3, 35, 99, 127}
Funct3Samples == {0, 1, 2, 4, 5}
Field5Samples == {0, 10, 21, 31}
Field7Samples == {0, 42, 85, 127}

WordOf(op, f1, f3, f4, f5, f7) ==
    IntToBits(Py(op), 7) \o IntToBits(Py(f1), 5) \o IntToBits(Py(f3), 3)
    \o IntToBits(Py(f4), 5) \o IntToBits(Py(f5), 5) \o IntToBits(Py(f7), 7)

\* the code words of the tests (add, addi, blt, lw, sw)
TestWords ==
    {WordOf(51, 7, 0, 10, 27, 0), WordOf(19, 8, 0, 17, 27, 54),
     WordOf(99, 16, 4, 11, 23, 100), WordOf(3, 14, 2, 22, 22, 109),
     WordOf(35, 21, 2, 29, 19, 42)}

NoBuilt == [err |-> "none", instr |-> NoInstr, bits |-> NoBits]

CodecIdle ==
    /\ cinstr = NoInstr /\ cword = NoBits /\ cback = NoBuilt /\ cstage = "idle"

CodecInit ==
    /\ cinstr = NoInstr /\ cword = NoBits /\ cback = NoBuilt /\ cstage = "start"

\* instr = Mnemonic(x, y, z) or Mnemonic(x, y, imm)
CodecBuild(m, x, y, z, imm) ==
    /\ cstage = "start"
    /\ cinstr' = Initialize(m, x, y, z, imm)
    /\ cstage' = "built"
    /\ UNCHANGED <<cword, cback>>

\* word = instr.encode()
CodecEncode ==
    /\ cstage = "built"
    /\ LET r == Encode(cinstr, TRUE) IN
        /\ cword' = r.bits
        /\ cback' = [err |-> r.err, instr |-> NoInstr, bits |-> NoBits]
        /\ cstage' = IF r.err = "none" THEN "encoded" ELSE "failed"
    /\ UNCHANGED cinstr

\* Mnemonic(word), the class being that of instr
CodecDecode ==
    /\ cstage = "encoded"
    /\ LET r == Decode(cinstr.mnemonic, cword, TRUE) IN
        /\ cback' = [err |-> r.err, instr |-> r.instr, bits |-> NoBits]
        /\ cstage' = "redecoded"
    /\ UNCHANGED <<cinstr, cword>>

\* a code word to decode
CodecWord(w) ==
    /\ cstage = "start"
    /\ cword' = w
    /\ cstage' = "word"
    /\ UNCHANGED <<cinstr, cback>>

\* instr = Mnemonic(word)
CodecDecodeWord(m) ==
    /\ cstage = "word"
    /\ LET r == Decode(m, cword, TRUE) IN
        /\ cinstr' = r.instr
        /\ cback' = [err |-> r.err, instr |-> NoInstr, bits |-> NoBits]
        /\ cstage' = IF r.err = "none" THEN "decoded" ELSE "failed"
    /\ UNCHANGED cword

\* instr.encode() of the decoded instruction
CodecEncodeBack ==
    /\ cstage = "decoded"
    /\ LET r == Encode(cinstr, TRUE) IN
        /\ cback' = [err |-> r.err, instr |-> NoInstr, bits |-> r.bits]
        /\ cstage' = "reencoded"
    /\ UNCHANGED <<cinstr, cword>>

\* the instructions built: every mnemonic over the sampled operands
CodecBuildAny ==
    /\ cstage = "start"
    /\ \E m \in Mnemonics, x, y \in RegSamples :
          \/ Format(m) = "R" /\ \E z \in RegSamples : CodecBuild(m, x, y, z, Word(0))
          \/ Format(m) # "R" /\ \E imm \in ImmSamples : CodecBuild(m, x, y, 0, imm)

\* the words decoded: every combination of the sampled fields
CodecWordAny ==
    /\ cstage = "start"
    /\ \/ \E op \in OpcodeSamples, f3 \in Funct3Samples, f7 \in Field7Samples,
             f1, f4, f5 \in Field5Samples :
            CodecWord(WordOf(op, f1, f3, f4, f5, f7))
       \/ \E w \in TestWords : CodecWord(w)

CodecDecodeWordAny ==
    /\ cstage = "word"
    /\ \E m \in Mnemonics : CodecDecodeWord(m)

CodecNext ==
    \/ CodecBuildAny /\ UNCHANGED <<intVars, machineVars, progVars>>
    \/ CodecEncode /\ UNCHANGED <<intVars, machineVars, progVars>>
    \/ CodecDecode /\ UNCHANGED <<intVars, machineVars, progVars>>
    \/ CodecWordAny /\ UNCHANGED <<intVars, machineVars, progVars>>
    \/ CodecDecodeWordAny /\ UNCHANGED <<intVars, machineVars, progVars>>
    \/ CodecEncodeBack /\ UNCHANGED <<intVars, machineVars, progVars>>

----------------------------------------------------------------------------
(* Properties of encode and decode, checked under SpecCodec.               *)

\* n is the sign extension of its low 12 bits: its value is in [-2048, 2047]
Fits12(n) == \A i \in 12..31 : n[i + 1] = n[12]

\* offset is even and the sign extension of its low 13 bits:
\* its value is an even number in [-4096, 4094]
FitsBranch(off) == ~off[1] /\ \A i \in 13..31 : off[i + 1] = off[13]

SameRegisters(i, j) == i.rd = j.rd /\ i.rs1 = j.rs1 /\ i.rs2 = j.rs2

\* C1 as stated: decoding the encoded word of any instruction built from
\* registers in 0..31 and any 32-bit immediate or offset gives back all fields.
C1_RoundTripAnyImmediate ==
    cstage = "redecoded" => (cback.err = "none" /\ cback.instr = cinstr)

\* C1 amended: decoding the encoded word gives back the mnemonic and the
\* registers of every instruction, and gives back the immediate of addi, lw and
\* sw exactly when it is in [-2048, 2047], the offset of beq, bge and blt
\* exactly when it is even and in [-4096, 4094].
C1_RoundTripFitting ==
    cstage = "redecoded" =>
        /\ cback.err = "none"
        /\ cback.instr.mnemonic = cinstr.mnemonic
        /\ SameRegisters(cback.instr, cinstr)
        /\ Format(cinstr.mnemonic) = "R" => cback.instr = cinstr
        /\ Format(cinstr.mnemonic) \in {"I", "S"} =>
               /\ cback.instr.offset = NoBits
               /\ (cback.instr.n = cinstr.n) <=> Fits12(cinstr.n)
        /\ Format(cinstr.mnemonic) = "SB" =>
               /\ cback.instr.n = NoBits
               /\ (cback.instr.offset = cinstr.offset) <=> FitsBranch(cinstr.offset)

\* lw with the negative immediate -586 of the test has made the round trip
C1_Witness ==
    /\ cstage = "redecoded"
    /\ cinstr.mnemonic = "lw"
    /\ cinstr.n = Word(-586)
    /\ cback.instr = cinstr

\* C2: for every word that decodes as one of the seven instructions, encoding
\* the decoded instruction gives the word back bit for bit.
C2_WordRoundTrip ==
    cstage = "reencoded" => (cback.err = "none" /\ cback.bits = cword)

\* the blt word of the test has been decoded and encoded again
C2_Witness ==
    /\ cstage = "reencoded"
    /\ cword = WordOf(99, 16, 4, 11, 23, 100)
    /\ cinstr.mnemonic = "blt"
    /\ cinstr.offset = Word(-2928)
    /\ cback.bits = cword

\* the bits lo..hi of the word are the number v written in binary
FieldIs(w, lo, hi, v) ==
    SubSeq(w, lo + 1, hi + 1) = SubSeq(Word(v), 1, hi - lo + 1)

\* the fixed fields of the word are those of the variant m
FieldsMatch(m, w) ==
    /\ FieldIs(w, 0, 6, OPCODE(m))
    /\ FieldIs(w, 12, 14, FUNCT3(m))
    /\ Format(m) = "R" => FieldIs(w, 25, 31, FUNCT7(m))

\* C13: decoding a word as the variant m fails, leaving no instruction,
\* whenever bits 0..6 differ from m's opcode, bits 12..14 from its funct3 or,
\* for an R-type, bits 25..31 from its funct7; it succeeds for every word in
\* which these fields match.
C13_DecodeChecks ==
    [][\A m \in Mnemonics :
          CodecDecodeWord(m) =>
              /\ (cback'.err = "none") <=> FieldsMatch(m, cword)
              /\ cback'.err = "none" => cinstr'.mnemonic = m
              /\ cback'.err # "none" => (cinstr' = NoInstr /\ cstage' = "failed")]_vars

\* a word with the opcode and funct3 of add and another funct7 was refused
C13_Witness ==
    /\ cstage = "failed"
    /\ cword = WordOf(51, 10, 0, 21, 31, 42)
    /\ cback.err = "RiscInstructionException: Wrong funct7"

\* bit k (0..31) of a word
Bit(w, k) == w[k + 1]

\* offset with bit 0 and bits 13..31 cleared
BranchBits(off) == [k \in 1..WordSize |-> k \in 2..13 /\ off[k]]

\* C19: the word encode gives for an SB-type instruction (default layout)
\* has the opcode in bits 0..6, offset bit 11 in bit 7, offset bits 1..4 in
\* bits 8..11, funct3 in bits 12..14, rs1 in bits 15..19, rs2 in bits 20..24,
\* offset bits 5..10 in bits 25..30 and offset bit 12 in bit 31, for every
\* rs1, rs2 in 0..31 and every offset; offset bit 0 and bits 13..31 have no
\* influence on the word.
C19_BranchLayout ==
    (cstage \in {"encoded", "failed"} /\ cinstr # NoInstr
        /\ Format(cinstr.mnemonic) = "SB") =>
        /\ cback.err = "none"
        /\ FieldIs(cword, 0, 6, OPCODE(cinstr.mnemonic))
        /\ Bit(cword, 7) = Bit(cinstr.offset, 11)
        /\ \A k \in 1..4 : Bit(cword, 7 + k) = Bit(cinstr.offset, k)
        /\ FieldIs(cword, 12, 14, FUNCT3(cinstr.mnemonic))
        /\ FieldIs(cword, 15, 19, cinstr.rs1)
        /\ FieldIs(cword, 20, 24, cinstr.rs2)
        /\ \A k \in 5..10 : Bit(cword, 20 + k) = Bit(cinstr.offset, k)
        /\ Bit(cword, 31) = Bit(cinstr.offset, 12)
        /\ Encode([cinstr EXCEPT !.offset = BranchBits(@)], TRUE).bits = cword

\* blt x21, x31, offset with only bit 11 set: only bit 7 of the offset
\* fields of the word is set
C19_Witness ==
    /\ cstage = "encoded"
    /\ cinstr = SBInitialize("blt", 21, 31, OneHot(11))
    /\ Bit(cword, 7)
    /\ \A k \in (8..11) \cup (25..31) : ~Bit(cword, k)

\* instr is what decoding the word as its variant gives for the immediate
SignExtended(instr, word) ==
    CASE Format(instr.mnemonic) = "I" ->
            /\ \A k \in 0..11 : Bit(instr.n, k) = Bit(word, 20 + k)
            /\ \A k \in 12..31 : Bit(instr.n, k) = Bit(instr.n, 11)
            /\ Native(to_int(instr.n, TRUE)) \in -2048..2047
      [] Format(instr.mnemonic) = "S" ->
            /\ \A k \in 0..4 : Bit(instr.n, k) = Bit(word, 7 + k)
            /\ \A k \in 5..11 : Bit(instr.n, k) = Bit(word, 20 + k)
            /\ \A k \in 12..31 : Bit(instr.n, k) = Bit(instr.n, 11)
            /\ Native(to_int(instr.n, TRUE)) \in -2048..2047
      [] Format(instr.mnemonic) = "SB" ->
            /\ ~Bit(instr.offset, 0)
            /\ \A k \in 12..31 : Bit(instr.offset, k) = Bit(word, 31)
      [] OTHER -> TRUE

\* C20: decoding a matching I-type or S-type word gives an immediate whose
\* low 12 bits are the immediate field of the word (bits 20..31; bits 7..11
\* then 25..31) and whose bits 12..31 equal its bit 11, so that its signed
\* value is in [-2048, 2047]; decoding a matching SB-type word gives an
\* offset with bit 0 clear and bits 12..31 equal to bit 31 of the word.
C20_SignExtension ==
    /\ cstage \in {"decoded", "reencoded"} => SignExtended(cinstr, cword)
    /\ cstage = "redecoded" /\ cback.err = "none" =>
          SignExtended(cback.instr, cword)

\* the lw word of the test with immediate field 0xdb6 has decoded to -586
C20_Witness ==
    /\ cstage = "decoded"
    /\ cword = WordOf(3, 14, 2, 22, 22, 109)
    /\ cinstr.mnemonic = "lw"
    /\ cinstr.n = Word(-586)

\* the immediate or offset of the instruction is one its encoding can hold
Encodable(i) ==
    CASE Format(i.mnemonic) = "R" -> TRUE
      [] Format(i.mnemonic) \in {"I", "S"} ->
            Native(to_int(i.n, TRUE)) \in -2048..2047
      [] Format(i.mnemonic) = "SB" ->
            /\ Native(to_int(i.offset, TRUE)) \in -4096..4094
            /\ Native(to_int(i.offset, TRUE)) % 2 = 0

\* C26: decode(encode(instr)) gives back every field of add with registers
\* in 0..31, of addi, lw and sw with registers in 0..31 and an immediate in
\* [-2048, 2047], and of beq, bge and blt (default layout) with registers in
\* 0..31 and an even offset in [-4096, 4094].
C26_RestrictedRoundTrip ==
    (cstage \in {"encoded", "redecoded"} /\ Encodable(cinstr)) =>
        /\ Decode(cinstr.mnemonic, cword, TRUE) = Built(cinstr)
        /\ cstage = "redecoded" => (cback.err = "none" /\ cback.instr = cinstr)

\* sw x21, -2048(x10) has made the round trip
C26_Witness ==
    /\ cstage = "redecoded"
    /\ cinstr = SInitialize("sw", 10, 21, Word(-2048))
    /\ cback.instr = cinstr

----------------------------------------------------------------------------
(* The contiguous SB layout: branches encoded and decoded with swirl=False. *)

\* instr = Mnemonic(rs1, rs2, offset) for the three branches
PlainBuild ==
    /\ cstage = "start"
    /\ \E m \in {"beq", "bge", "blt"}, x, y \in RegSamples, off \in ImmSamples :
          CodecBuild(m, x, y, 0, off)

\* word = instr.encode(swirl=False)
PlainEncode ==
    /\ cstage = "built"
    /\ LET r == Encode(cinstr, FALSE) IN
        /\ cword' = r.bits
        /\ cback' = [err |-> r.err, instr |-> NoInstr, bits |-> NoBits]
        /\ cstage' = IF r.err = "none" THEN "encoded" ELSE "failed"
    /\ UNCHANGED cinstr

\* Mnemonic(word, swirl=False)
PlainDecode ==
    /\ cstage = "encoded"
    /\ LET r == Decode(cinstr.mnemonic, cword, FALSE) IN
        /\ cback' = [err |-> r.err, instr |-> r.instr, bits |-> NoBits]
        /\ cstage' = "redecoded"
    /\ UNCHANGED <<cinstr, cword>>

PlainNext ==
    \/ PlainBuild /\ UNCHANGED <<intVars, machineVars, progVars>>
    \/ PlainEncode /\ UNCHANGED <<intVars, machineVars, progVars>>
    \/ PlainDecode /\ UNCHANGED <<intVars, machineVars, progVars>>

\* C25: with the contiguous layout, decoding with swirl=False the word that
\* encode(swirl=False) gives for a branch with rs1, rs2 in 0..31 and an even
\* offset in [-4096, 4094] reproduces rs1, rs2 and the offset.
C25_PlainRoundTrip ==
    (cstage = "redecoded" /\ FitsBranch(cinstr.offset)) =>
        /\ cback.err = "none"
        /\ cback.instr.rs1 = cinstr.rs1
        /\ cback.instr.rs2 = cinstr.rs2
        /\ cback.instr.offset = cinstr.offset

----------------------------------------------------------------------------
(* Text: a str is the sequence of its characters.                          *)

LowerSeq == <<"a", "b", "c", "d", "e", "f", "g", "h", "i", "j", "k", "l", "m",
              "n", "o", "p", "q", "r", "s", "t", "u", "v", "w", "x", "y", "z">>
UpperSeq == <<"A", "B", "C", "D", "E", "F", "G", "H", "I", "J", "K", "L", "M",
              "N", "O", "P", "Q", "R", "S", "T", "U", "V", "W", "X", "Y", "Z">>
DigitSeq == <<"0", "1", "2", "3", "4", "5", "6", "7", "8", "9">>

Range(seq) == {seq[k] : k \in DOMAIN seq}

Lower == Range(LowerSeq)
Upper == Range(UpperSeq)
Digit == Range(DigitSeq)
\* what str.strip() removes and \s matches
Space == {" ", "\t"}

\* the character classes of the regular expressions
LowerDigit == Lower \cup Digit                      \* [a-z0-9]
IdentStart == Lower \cup Upper \cup {"_"}           \* [a-zA-Z_]
IdentChar == IdentStart \cup Digit                  \* [a-zA-Z_0-9]
CommentStart == {";", "#", "/"}                     \* excluded by [^;#/]

\* how many characters of text from position pos (1-based) on are in class
\* (in = TRUE) or outside it (in = FALSE): what a greedy class* consumes
RECURSIVE RunLength(_, _, _, _)
RunLength(text, pos, class, in) ==
    IF pos > Len(text) \/ ((text[pos] \in class) # in) THEN 0
    ELSE 1 + RunLength(text, pos + 1, class, in)

\* how many characters at the end of text, before position pos, are spaces
RECURSIVE TrailingSpace(_, _)
TrailingSpace(text, pos) ==
    IF pos < 1 \/ text[pos] \notin Space THEN 0
    ELSE 1 + TrailingSpace(text, pos - 1)

\* str.strip()
Strip(text) ==
    LET lead == RunLength(text, 1, Space, TRUE)
    IN  IF lead = Len(text) THEN <<>>
        ELSE SubSeq(text, lead + 1, Len(text) - TrailingSpace(text, Len(text)))

\* re.match('([^;#/]*)(([;#]|//).*)?', line).group(1)
StripComment(line) == SubSeq(line, 1, RunLength(line, 1, CommentStart, FALSE))

\* re.match('^[a-zA-Z_][a-zA-Z_0-9]*:$', line)
IsLabel(line) ==
    /\ Len(line) >= 2
    /\ line[1] \in IdentStart
    /\ \A k \in 2..(Len(line) - 1) : line[k] \in IdentChar
    /\ line[Len(line)] = ":"

\* str.lower() of one character
LowerChar(c) ==
    IF c \in Upper THEN LowerSeq[CHOOSE k \in DOMAIN UpperSeq : UpperSeq[k] = c]
    ELSE c

\* str.lower()
ToLower(text) == [k \in DOMAIN text |-> LowerChar(text[k])]

\* line.split(' ', 1): the position of the first ' ', 0 when there is none
RECURSIVE FirstBlank(_, _)
FirstBlank(text, pos) ==
    IF pos > Len(text) THEN 0
    ELSE IF text[pos] = " " THEN pos
    ELSE FirstBlank(text, pos + 1)

DigitValue(c) == (CHOOSE k \in DOMAIN DigitSeq : DigitSeq[k] = c) - 1

\* the value of the decimal digits of text from pos on, after those read
RECURSIVE DigitsValue(_, _, _)
DigitsValue(text, pos, acc) ==
    IF pos > Len(text) THEN acc
    ELSE LET lo == acc.lo * 10 + DigitValue(text[pos])
         IN  DigitsValue(text, pos + 1,
                         [hi |-> acc.hi * 10 + (lo \div Half), lo |-> lo % Half])

PyNegate(p) ==
    IF p.lo = 0 THEN [hi |-> 0 - p.hi, lo |-> 0]
    ELSE [hi |-> 0 - p.hi - 1, lo |-> Half - p.lo]

\* int(text) succeeds on the tokens the formats capture exactly when the
\* token is -?[0-9]+
IsInt(text) ==
    LET neg == Len(text) >= 1 /\ text[1] = "-"
        from == IF neg THEN 2 ELSE 1
    IN  /\ Len(text) >= from
        /\ \A k \in from..Len(text) : text[k] \in Digit

\* int(text)
IntValue(text) ==
    IF text[1] = "-" THEN PyNegate(DigitsValue(text, 2, Py(0)))
    ELSE DigitsValue(text, 1, Py(0))

----------------------------------------------------------------------------
(* The FORMAT regular expressions and re.match (instruction.py).           *)

\* the pieces a FORMAT is made of
Class(c) == [k |-> "class", class |-> c, c |-> ""]     \* ([...]+), a group
Lit(c) == [k |-> "lit", class |-> {}, c |-> c]          \* one character
Ws == [k |-> "ws", class |-> {}, c |-> ""]              \* \s*
IntPiece == [k |-> "int", class |-> {}, c |-> ""]            \* (-?[0-9]+), a group
\* ([a-zA-Z_][a-zA-Z_0-9]*|-?[0-9]+), a group
Target == [k |-> "target", class |-> {}, c |-> ""]

RFormat == <<Class(LowerDigit), Lit(","), Ws, Class(LowerDigit), Lit(","), Ws,
             Class(LowerDigit)>>
IFormat == <<Class(LowerDigit), Lit(","), Ws, Class(LowerDigit), Lit(","), Ws,
             IntPiece>>
SBFormat == <<Class(LowerDigit), Lit(","), Ws, Class(LowerDigit), Lit(","), Ws,
              Target>>
SFormat == <<Class(LowerDigit), Lit(","), Ws, IntPiece, Lit("("), Class(LowerDigit),
             Lit(")")>>

\* the FORMAT of the class registered for a mnemonic; lw keeps the one of
\* ITypeRiscInstruction
FORMAT(m) ==
    CASE Format(m) = "R" -> RFormat
      [] Format(m) = "I" -> IFormat
      [] Format(m) = "SB" -> SBFormat
      [] Format(m) = "S" -> SFormat

NoMatch == [ok |-> FALSE, groups |-> <<>>]

\* the length of a numeral with its sign, given the length of its digits
WithSign(digits) == IF digits = 0 THEN 0 ELSE digits + 1

\* the length of -?[0-9]+ at pos, 0 when it does not match there
IntLength(text, pos) ==
    IF pos <= Len(text) /\ text[pos] = "-"
    THEN WithSign(RunLength(text, pos + 1, Digit, TRUE))
    ELSE RunLength(text, pos, Digit, TRUE)

\* the length of the group of Target at pos: the first alternative that matches
TargetLength(text, pos) ==
    IF pos <= Len(text) /\ text[pos] \in IdentStart
    THEN 1 + RunLength(text, pos + 1, IdentChar, TRUE)
    ELSE IntLength(text, pos)

\* a group of one character or more: -1 when nothing was consumed
AtLeastOne(n) == IF n = 0 THEN -1 ELSE n

\* the length the piece `item` consumes at pos, -1 when it does not match
PieceLength(item, text, pos) ==
    CASE item.k = "class" -> AtLeastOne(RunLength(text, pos, item.class, TRUE))
      [] item.k = "lit" ->
            IF pos <= Len(text) /\ text[pos] = item.c THEN 1 ELSE -1
      [] item.k = "ws" -> RunLength(text, pos, Space, TRUE)
      [] item.k = "int" -> AtLeastOne(IntLength(text, pos))
      [] item.k = "target" -> AtLeastOne(TargetLength(text, pos))

RECURSIVE Match(_, _, _, _)

\* the first piece of format consumed n characters at pos, or failed (n < 0)
MatchRest(format, text, pos, groups, n) ==
    IF n < 0 THEN NoMatch
    ELSE Match(Tail(format), text, pos + n,
               IF Head(format).k \in {"class", "int", "target"}
               THEN Append(groups, SubSeq(text, pos, pos + n - 1))
               ELSE groups)

\* re.match(format, text): the match is anchored at the start only
Match(format, text, pos, groups) ==
    IF format = <<>> THEN [ok |-> TRUE, groups |-> groups]
    ELSE MatchRest(format, text, pos, groups,
                   PieceLength(Head(format), text, pos))

----------------------------------------------------------------------------
(* Parsing one line (instruction.py, riscv/implementation/memory.py).      *)

\* the outcome of a parse: an exception (with the text it names) or a value
Parsed(e, value, instr, detail) ==
    [err |-> e, value |-> value, instr |-> instr, detail |-> detail]

\* RiscInstruction.parse_register
parse_register(name) ==
    IF name[1] = "x"
    THEN IF Len(name) >= 2 /\ \A k \in 2..Len(name) : name[k] \in Digit
         THEN Parsed("none", DigitsValue(name, 2, Py(0)), NoInstr, <<>>)
         ELSE Parsed("RiscParseException: Unknown register name", NoInt,
                     NoInstr, name)
    ELSE Parsed("RiscParseException: Register names should start with x",
                NoInt, NoInstr, name)

\* the RiscInteger built from int(immediate), or its exception
Immediate(immediate, w) == Parsed(w.err, w.bits, NoInstr, immediate)

\* RiscInstruction.parse_immediate; value is the bits of the RiscInteger
parse_immediate(immediate) ==
    IF ~IsInt(immediate)
    THEN Parsed("RiscParseException: Could not parse immediate", NoBits,
                NoInstr, immediate)
    ELSE Immediate(immediate, RiscIntegerInt(IntValue(immediate), TRUE))

\* the first exception among three parsed operands, or the instruction
FirstError(a, b, c, instr) ==
    IF a.err # "none" THEN Parsed(a.err, NoBits, NoInstr, a.detail)
    ELSE IF b.err # "none" THEN Parsed(b.err, NoBits, NoInstr, b.detail)
    ELSE IF c.err # "none" THEN Parsed(c.err, NoBits, NoInstr, c.detail)
    ELSE Parsed("none", NoBits, instr, <<>>)

\* the fields set by the parse_args methods from the operands parsed, in the
\* order of their statements
RFields(m, rd, rs1, rs2) ==
    FirstError(rd, rs1, rs2,
               Instr(m, Native(rd.value), Native(rs1.value),
                     Native(rs2.value), NoBits, NoBits))

IFields(m, rd, rs1, n) ==
    FirstError(rd, rs1, n,
               Instr(m, Native(rd.value), Native(rs1.value), NoReg,
                     n.value, NoBits))

LoadWordFields(m, rd, n, rs1) ==
    FirstError(rd, n, rs1,
               Instr(m, Native(rd.value), Native(rs1.value), NoReg,
                     n.value, NoBits))

StoreWordFields(m, rs2, n, rs1) ==
    FirstError(rs2, n, rs1,
               Instr(m, NoReg, Native(rs1.value), Native(rs2.value),
                     n.value, NoBits))

SBFields(m, rs1, rs2, off) ==
    FirstError(rs1, rs2, off,
               Instr(m, NoReg, Native(rs1.value), Native(rs2.value),
                     NoBits, off.value))

\* RTypeRiscInstruction.parse_args
RParseArgs(m, parts) ==
    RFields(m, parse_register(parts[1]), parse_register(parts[2]),
            parse_register(parts[3]))

\* ITypeRiscInstruction.parse_args
IParseArgs(m, parts) ==
    IFields(m, parse_register(parts[1]), parse_register(parts[2]),
            parse_immediate(parts[3]))

\* LoadWordRiscInstruction.parse_args
LoadWordParseArgs(m, parts) ==
    LoadWordFields(m, parse_register(parts[1]), parse_immediate(parts[2]),
                   parse_register(parts[3]))

\* StoreWordRiscInstruction.parse_args
StoreWordParseArgs(m, parts) ==
    StoreWordFields(m, parse_register(parts[1]), parse_immediate(parts[2]),
                    parse_register(parts[3]))

ResolveAbsolute(target, locs, location) ==
    IF target \notin DOMAIN locs
    THEN Parsed("RiscParseException: Unable to resolve location", NoBits,
                NoInstr, target)
    ELSE Parsed("none", locs[target], NoInstr, <<>>)

\* the except branch of SBTypeRiscInstruction.parse_args
Resolve(target, locs, location) ==
    IF target \notin DOMAIN locs
    THEN Parsed("RiscParseException: Unable to resolve location", NoBits,
                NoInstr, target)
    ELSE Parsed("none", Sub(locs[target], location), NoInstr, <<>>)

\* the try statement of SBTypeRiscInstruction.parse_args, imm being the
\* outcome of parse_immediate
Offset(target, imm, locs, location) ==
    IF imm.err = "RiscParseException: Could not parse immediate"
    THEN Resolve(target, locs, location)
    ELSE imm

\* SBTypeRiscInstruction.parse_args
SBParseArgs(m, parts, locs, location) ==
    SBFields(m, parse_register(parts[1]), parse_register(parts[2]),
             Offset(parts[3], parse_immediate(parts[3]), locs, location))

\* impl(match.groups(), locations, location)
ParseArgs(m, parts, locs, location) ==
    CASE m = "lw" -> LoadWordParseArgs(m, parts)
      [] m = "sw" -> StoreWordParseArgs(m, parts)
      [] m = "add" -> RParseArgs(m, parts)
      [] m = "addi" -> IParseArgs(m, parts)
      [] m \in {"beq", "bge", "blt"} -> SBParseArgs(m, parts, locs, location)

\* the keys of RiscInstruction.INSTRUCTIONS as text
MnemonicText(m) ==
    CASE m = "add" -> <<"a", "d", "d">>
      [] m = "addi" -> <<"a", "d", "d", "i">>
      [] m = "beq" -> <<"b", "e", "q">>
      [] m = "bge" -> <<"b", "g", "e">>
      [] m = "blt" -> <<"b", "l", "t">>
      [] m = "lw" -> <<"l", "w">>
      [] m = "sw" -> <<"s", "w">>

\* the instruction registered under the text instr
Registered(instr) == {m \in Mnemonics : MnemonicText(m) = instr}

\* parse_line from re.match on: match is its outcome
Matched(line, m, match, locs, location) ==
    IF ~match.ok
    THEN Parsed("RiscParseException: Could not parse instruction", NoBits,
                NoInstr, line)
    ELSE ParseArgs(m, match.groups, locs, location)

\* parse_line from instr.lower() on
Split(line, instr, args, locs, location) ==
    IF Registered(instr) = {}
    THEN Parsed("RiscParseException: Unknown instruction", NoBits, NoInstr,
                instr)
    ELSE Matched(line, CHOOSE m \in Registered(instr) : TRUE,
                 Match(FORMAT(CHOOSE m \in Registered(instr) : TRUE),
                       Strip(args), 1, <<>>),
                 locs, location)

\* parse_line from split(' ', 1) on: blank is the position of the first ' '
Stripped(line, text, blank, locs, location) ==
    IF text = <<>> THEN Parsed("none", NoBits, NoInstr, <<>>)
    ELSE IF blank = 0
    THEN Parsed("RiscParseException: Could not parse line", NoBits, NoInstr,
                line)
    ELSE Split(line, ToLower(SubSeq(text, 1, blank - 1)),
               SubSeq(text, blank + 1, Len(text)), locs, location)

\* line.strip() and the position of its first ' '
StripAndSplit(line, text, locs, location) ==
    Stripped(line, text, FirstBlank(text, 1), locs, location)

\* RiscInstruction.parse_line; instr is NoInstr where the code returns None
parse_line(line, locs, location) ==
    StripAndSplit(line, Strip(line), locs, location)

----------------------------------------------------------------------------
(* RiscMachine (machine.py).                                               *)

Registers == 0..31

\* the fields of a machine that calls change, and the outcome of a call:
\* err, the value returned (bits), and the index handed to write_register
\* (NoReg when the call did not get that far)
MachineState(regs, pc, mem, written) ==
    [registers |-> regs, program_counter |-> pc, memory |-> mem,
     protected_registers_written |-> written]

Outcome(e, m, bits, wrote) == [err |-> e, m |-> m, bits |-> bits, wrote |-> wrote]

WriteRegisterUnprotected(m, protected, index, value) ==
    IF index < 0 \/ index > 31
    THEN Outcome("Exception: Write to unknown register", m, NoBits, index)
    ELSE Outcome("none", [m EXCEPT !.registers[index] = value], NoBits, index)

WriteRegisterIgnoring(m, protected, index, value) ==
    IF index \in protected
    THEN Outcome("none",
                 [m EXCEPT !.protected_registers_written = @ \cup {index}],
                 NoBits, index)
    ELSE IF index < 0 \/ index > 31
    THEN Outcome("none", m, NoBits, index)
    ELSE Outcome("none", [m EXCEPT !.registers[index] = value], NoBits, index)

\* RiscMachine.write_register
WriteRegister(m, protected, index, value) ==
    IF index \in protected
    THEN Outcome("none",
                 [m EXCEPT !.protected_registers_written = @ \cup {index}],
                 NoBits, index)
    ELSE IF index < 0 \/ index > 31
    THEN Outcome("Exception: Write to unknown register", m, NoBits, index)
    ELSE Outcome("none", [m EXCEPT !.registers[index] = value], NoBits, index)

\* RiscMachine.read_register
ReadRegister(m, index) ==
    IF index < 0 \/ index > 31
    THEN Outcome("Exception: Read from unknown register", m, NoBits, NoReg)
    ELSE Outcome("none", m, m.registers[index], NoReg)

DictSetAlone(dict, key, value) == [k \in {key} |-> value]

\* memory[key] = value on a dict
DictSet(dict, key, value) ==
    [k \in DOMAIN dict \cup {key} |-> IF k = key THEN value ELSE dict[k]]

WriteMemoryTruncating(m, address, value) ==
    Outcome("none",
            [m EXCEPT !.memory =
                DictSet(@, Native(to_int(<<FALSE, FALSE>> \o Slice(address, 2, 32),
                                         TRUE)), value)],
            NoBits, NoReg)

\* RiscMachine.write_memory
WriteMemory(m, address, value) ==
    IF Slice(address, 0, 2) # <<FALSE, FALSE>>
    THEN Outcome("Exception: Unaligned memory write", m, NoBits, NoReg)
    ELSE Outcome("none",
                 [m EXCEPT !.memory = DictSet(@, Native(to_int(address, TRUE)), value)],
                 NoBits, NoReg)

ReadMemoryDefault(m, address) ==
    IF Slice(address, 0, 2) # <<FALSE, FALSE>>
    THEN Outcome("Exception: Unaligned memory read", m, NoBits, NoReg)
    ELSE IF Native(to_int(address, TRUE)) \notin DOMAIN m.memory
    THEN Outcome("none", m, Word(0), NoReg)
    ELSE Outcome("none", m, m.memory[Native(to_int(address, TRUE))], NoReg)

\* RiscMachine.read_memory
ReadMemory(m, address) ==
    IF Slice(address, 0, 2) # <<FALSE, FALSE>>
    THEN Outcome("Exception: Unaligned memory read", m, NoBits, NoReg)
    ELSE IF Native(to_int(address, TRUE)) \notin DOMAIN m.memory
    THEN Outcome("KeyError", m, NoBits, NoReg)
    ELSE Outcome("none", m, m.memory[Native(to_int(address, TRUE))], NoReg)

AdvanceAlways(o, step) == [o EXCEPT !.m.program_counter = @ + step]

\* program_counter += step, after a call that went through
Advance(o, step) ==
    IF o.err # "none" THEN o
    ELSE [o EXCEPT !.m.program_counter = @ + step]

----------------------------------------------------------------------------
(* The run methods (implementation/arithmetic.py, branch.py, memory.py).   *)

AddRunAfterWrite(i, m, protected) ==
    LET a == ReadRegister(m, i.rs1)
    IN  IF a.err # "none" THEN a
        ELSE LET w == WriteRegister(m, protected, i.rd, a.bits)
                 b == ReadRegister(w.m, i.rs2)
             IN  IF w.err # "none" THEN w
                 ELSE IF b.err # "none" THEN b
                 ELSE Advance(WriteRegister(m, protected, i.rd,
                                            Add(a.bits, b.bits)), 4)

\* AddRiscInstruction.run
AddRun(i, m, protected) ==
    LET a == ReadRegister(m, i.rs1)
        b == ReadRegister(m, i.rs2)
    IN  IF a.err # "none" THEN a
        ELSE IF b.err # "none" THEN b
        ELSE Advance(WriteRegister(m, protected, i.rd, Add(a.bits, b.bits)), 4)

\* AddImmediateRiscInstruction.run
AddImmediateRun(i, m, protected) ==
    LET a == ReadRegister(m, i.rs1)
    IN  IF a.err # "none" THEN a
        ELSE Advance(WriteRegister(m, protected, i.rd, Add(a.bits, i.n)), 4)

\* LoadWordRiscInstruction.run
LoadWordRun(i, m, protected) ==
    LET a == ReadRegister(m, i.rs1)
    IN  IF a.err # "none" THEN a
        ELSE LET v == ReadMemory(m, Add(a.bits, i.n))
             IN  IF v.err # "none" THEN v
                 ELSE Advance(WriteRegister(m, protected, i.rd, v.bits), 4)

StoreWordRunNoOffset(i, m, protected) ==
    LET a == ReadRegister(m, i.rs1)
        v == ReadRegister(m, i.rs2)
    IN  IF a.err # "none" THEN a
        ELSE IF v.err # "none" THEN v
        ELSE Advance(WriteMemory(m, a.bits, v.bits), 4)

\* StoreWordRiscInstruction.run
StoreWordRun(i, m, protected) ==
    LET a == ReadRegister(m, i.rs1)
        v == ReadRegister(m, i.rs2)
    IN  IF a.err # "none" THEN a
        ELSE IF v.err # "none" THEN v
        ELSE Advance(WriteMemory(m, Add(a.bits, i.n), v.bits), 4)

ConditionUnsigned(mnemonic, a, b) ==
    CASE mnemonic = "beq" -> Eq(a, b)
      [] mnemonic = "bge" -> ~compare_unsigned(a, b)
      [] mnemonic = "blt" -> compare_unsigned(a, b)

\* the condition methods of beq, bge and blt
Condition(mnemonic, a, b) ==
    CASE mnemonic = "beq" -> Eq(a, b)
      [] mnemonic = "bge" -> Ge(a, b)
      [] mnemonic = "blt" -> Lt(a, b)

BranchRunNeverTaken(i, m, protected) ==
    LET a == ReadRegister(m, i.rs1)
        b == ReadRegister(m, i.rs2)
    IN  IF a.err # "none" THEN a
        ELSE IF b.err # "none" THEN b
        ELSE Advance(Outcome("none", m, NoBits, NoReg), 4)

BranchRunThenAdvance(i, m, protected) ==
    LET a == ReadRegister(m, i.rs1)
        b == ReadRegister(m, i.rs2)
    IN  IF a.err # "none" THEN a
        ELSE IF b.err # "none" THEN b
        ELSE IF Condition(i.mnemonic, a.bits, b.bits)
        THEN Advance(Outcome("none", m, NoBits, NoReg),
                     Native(to_int(i.offset, TRUE)) + 4)
        ELSE Advance(Outcome("none", m, NoBits, NoReg), 4)

\* BranchRiscInstruction.run
BranchRun(i, m, protected) ==
    LET a == ReadRegister(m, i.rs1)
        b == ReadRegister(m, i.rs2)
    IN  IF a.err # "none" THEN a
        ELSE IF b.err # "none" THEN b
        ELSE IF Condition(i.mnemonic, a.bits, b.bits)
        THEN Advance(Outcome("none", m, NoBits, NoReg),
                     Native(to_int(i.offset, TRUE)))
        ELSE Advance(Outcome("none", m, NoBits, NoReg), 4)

\* instruction.run(machine)
Run(i, m, protected) ==
    CASE i.mnemonic = "add" -> AddRun(i, m, protected)
      [] i.mnemonic = "addi" -> AddImmediateRun(i, m, protected)
      [] i.mnemonic = "lw" -> LoadWordRun(i, m, protected)
      [] i.mnemonic = "sw" -> StoreWordRun(i, m, protected)
      [] i.mnemonic \in {"beq", "bge", "blt"} -> BranchRun(i, m, protected)

----------------------------------------------------------------------------
(* The machine driven call by call.                                        *)

Machine == MachineState(registers, program_counter, memory,
                        protected_registers_written)

\* the machine takes the fields of m
Becomes(m) ==
    /\ registers' = m.registers
    /\ program_counter' = m.program_counter
    /\ memory' = m.memory
    /\ protected_registers_written' = m.protected_registers_written
    /\ UNCHANGED protected_registers

LastOp(op, i, index, o) ==
    [op |-> op, instr |-> i, index |-> index, err |-> o.err,
     bits |-> o.bits, wrote |-> o.wrote]

NoOp == [op |-> "none", instr |-> NoInstr, index |-> NoReg, err |-> "none",
         bits |-> NoBits, wrote |-> NoReg]

\* no machine has been constructed
MachineIdle ==
    /\ registers = <<>>
    /\ program_counter = 0
    /\ memory = <<>>
    /\ protected_registers = {}
    /\ protected_registers_written = {}
    /\ lastop = NoOp
    /\ opcount = 0

\* RiscMachine.__init__ with the memory and the protected registers given
MachineConstructed(mem, protected) ==
    /\ registers = [i \in Registers |-> Word(0)]
    /\ program_counter = 0
    /\ memory = mem
    /\ protected_registers = protected
    /\ protected_registers_written = {}
    /\ lastop = NoOp

MaxOps == 3

\* values written and stored
ValueSamples == {Word(4), Word(-3), Word(2147483647)}

\* the memory handed to the constructor: none, or one with a word at 4
MemorySamples == {<<>>, [k \in {4} |-> Word(7)]}

\* the protected registers handed to the constructor; {0} is the default
ProtectedSamples == {{0}, {}}

\* instructions run on the machine, built from fields; 32 is no register
RunSamples ==
    {RInitialize("add", rd, 1, rs2) : rd \in {0, 2}, rs2 \in {1, 2}}
    \cup {IInitialize("addi", rd, 1, n) : rd \in {0, 1}, n \in {Word(1), Word(-3)}}
    \cup {IInitialize("lw", rd, 1, n) : rd \in {0, 2}, n \in {Word(0), Word(2)}}
    \cup {SInitialize("sw", 1, 2, n) : n \in {Word(0), Word(-1), Word(-4)}}
    \cup {SBInitialize(b, 1, 2, o) : b \in {"beq", "bge", "blt"},
                                     o \in {Word(8), Word(-8)}}
    \cup {RInitialize("add", 32, 1, 2), IInitialize("lw", 2, 32, Word(0)),
          SInitialize("sw", 1, 32, Word(1)), RInitialize("add", 1, 1, 2)}

MachineInit ==
    /\ \E mem \in MemorySamples, protected \in ProtectedSamples :
          MachineConstructed(mem, protected)
    /\ opcount = 0

\* machine.write_register(index, value)
MachineWriteRegister(index, value) ==
    LET o == WriteRegister(Machine, protected_registers, index, value) IN
    /\ Becomes(o.m)
    /\ lastop' = LastOp("write_register", NoInstr, index, o)

\* machine.read_register(index)
MachineReadRegister(index) ==
    LET o == ReadRegister(Machine, index) IN
    /\ Becomes(o.m)
    /\ lastop' = LastOp("read_register", NoInstr, index, o)

\* instr.run(machine)
MachineRun(i) ==
    LET o == Run(i, Machine, protected_registers) IN
    /\ Becomes(o.m)
    /\ lastop' = LastOp("run", i, NoReg, o)

MachineStep ==
    /\ opcount < MaxOps
    /\ opcount' = opcount + 1
    /\ \/ \E index \in {0, 1, 2, 32}, value \in ValueSamples :
              MachineWriteRegister(index, value)
       \/ \E index \in {0, 1, 32} : MachineReadRegister(index)
       \/ \E i \in RunSamples : MachineRun(i)

MachineNext == MachineStep /\ UNCHANGED <<intVars, codecVars, progVars>>

----------------------------------------------------------------------------
(* Properties of the machine, checked under SpecMachine.                   *)

\* C5: with the default protected set {0}, register 0 holds zero after any
\* calls, read_register(0) returns zero, and a call that handed index 0 to
\* write_register leaves 0 in protected_registers_written.
C5_ProtectedZero ==
    protected_registers = {0} =>
        /\ registers[0] = Word(0)
        /\ (lastop.op = "read_register" /\ lastop.index = 0) =>
               (lastop.err = "none" /\ lastop.bits = Word(0))
        /\ lastop.wrote = 0 => 0 \in protected_registers_written

\* lw has loaded the word 7 towards x0, after an earlier call
C5_Witness ==
    /\ protected_registers = {0}
    /\ opcount >= 2
    /\ lastop.op = "run" /\ lastop.instr.mnemonic = "lw"
    /\ lastop.err = "none" /\ lastop.wrote = 0
    /\ registers[0] = Word(0)
    /\ 0 \in protected_registers_written

\* the remainder modulo 4 of the sum of two RiscIntegers
SumMod4(a, b) == ((Native(to_int(a, TRUE)) % 4) + (Native(to_int(b, TRUE)) % 4)) % 4

\* the call just made ran lw or sw with a base register in 0..31 and an
\* effective address that is not a multiple of 4
UnalignedAccess ==
    /\ opcount' = opcount + 1
    /\ lastop'.op = "run"
    /\ lastop'.instr.mnemonic \in {"lw", "sw"}
    /\ lastop'.instr.rs1 \in Registers
    /\ SumMod4(registers[lastop'.instr.rs1], lastop'.instr.n) # 0

\* C6: lw or sw with an effective address that is not a multiple of 4 fails
\* with an access error and neither reads nor writes any memory cell (nor
\* anything else of the machine).
C6_UnalignedFails ==
    [][UnalignedAccess =>
        /\ lastop'.err =
              IF lastop'.instr.mnemonic = "lw"
              THEN "Exception: Unaligned memory read"
              ELSE IF lastop'.instr.rs2 \in Registers
              THEN "Exception: Unaligned memory write"
              ELSE "Exception: Read from unknown register"
        /\ memory' = memory
        /\ registers' = registers
        /\ program_counter' = program_counter
        /\ protected_registers_written' = protected_registers_written
        /\ lastop'.bits = NoBits
        /\ lastop'.wrote = NoReg]_vars

\* lw at 2**31 - 1 + 2, which wraps to an odd negative address, has failed
C6_Witness ==
    /\ lastop.op = "run"
    /\ lastop.instr = IInitialize("lw", 2, 1, Word(2))
    /\ registers[1] = Word(2147483647)
    /\ lastop.err = "Exception: Unaligned memory read"

\* the call just made ran an instruction with one of the mnemonics
JustRan(mnemonics) ==
    /\ opcount' = opcount + 1
    /\ lastop'.op = "run"
    /\ lastop'.instr.mnemonic \in mnemonics

\* the address rs1 + n of the lw or sw just run, as the key of memory
EffectiveAddress ==
    Native(WrapSum(to_int(registers[lastop'.instr.rs1], TRUE),
                   to_int(lastop'.instr.n, TRUE)))

\* C14: lw from an aligned address that memory does not hold fails with the
\* missing-key error; it loads nothing, zero or otherwise, into rd and leaves
\* the machine as it was.
C14_MissingData ==
    [][(/\ JustRan({"lw"})
        /\ lastop'.instr.rs1 \in Registers
        /\ EffectiveAddress % 4 = 0
        /\ EffectiveAddress \notin DOMAIN memory) =>
            /\ lastop'.err = "KeyError"
            /\ lastop'.wrote = NoReg
            /\ registers' = registers
            /\ memory' = memory
            /\ program_counter' = program_counter
            /\ protected_registers_written' = protected_registers_written]_vars

\* lw x2, 0(x1) with x1 = 4 and an empty memory has failed
C14_Witness ==
    /\ lastop.op = "run"
    /\ lastop.instr = IInitialize("lw", 2, 1, Word(0))
    /\ registers[1] = Word(4)
    /\ memory = <<>>
    /\ lastop.err = "KeyError"
    /\ registers[2] = Word(0)

\* the condition of a branch on the values a and b, from their signed values
Holds(mnemonic, a, b) ==
    CASE mnemonic = "beq" -> \A k \in 1..WordSize : a[k] = b[k]
      [] mnemonic = "bge" -> ~PyLess(to_int(a, TRUE), to_int(b, TRUE))
      [] mnemonic = "blt" -> PyLess(to_int(a, TRUE), to_int(b, TRUE))

\* C15: beq, bge and blt set the program counter to pc + offset.to_int() when
\* the condition holds (bitwise equality, signed >=, signed <) and to pc + 4
\* otherwise, and change nothing else; on the same operands exactly one of
\* blt and bge is taken.
C15_Branches ==
    [][(/\ JustRan({"beq", "bge", "blt"})
        /\ lastop'.instr.rs1 \in Registers
        /\ lastop'.instr.rs2 \in Registers) =>
            LET a == registers[lastop'.instr.rs1]
                b == registers[lastop'.instr.rs2]
            IN  /\ lastop'.err = "none"
                /\ program_counter' = program_counter +
                      (IF Holds(lastop'.instr.mnemonic, a, b)
                       THEN Native(to_int(lastop'.instr.offset, TRUE)) ELSE 4)
                /\ registers' = registers
                /\ memory' = memory
                /\ Condition("blt", a, b) # Condition("bge", a, b)]_vars

\* blt x1, x2, -8 with x1 = -3 < x2 = 4 was taken from pc = 0
C15_Witness ==
    /\ lastop.op = "run"
    /\ lastop.instr = SBInitialize("blt", 1, 2, Word(-8))
    /\ registers[1] = Word(-3)
    /\ registers[2] = Word(4)
    /\ program_counter = -8

\* C16: add and addi with an unprotected rd in 0..31 set rd to the wraparound
\* sum of the operand values held before the instruction, also when rd is
\* rs1 or rs2, leave the other registers alone and advance pc by exactly 4.
C16_AddWritesSum ==
    [][(/\ JustRan({"add", "addi"})
        /\ lastop'.instr.rs1 \in Registers
        /\ lastop'.instr.mnemonic = "add" => lastop'.instr.rs2 \in Registers
        /\ lastop'.instr.rd \in Registers \ protected_registers) =>
            LET i == lastop'.instr
                a == to_int(registers[i.rs1], TRUE)
                b == IF i.mnemonic = "add" THEN to_int(registers[i.rs2], TRUE)
                     ELSE to_int(i.n, TRUE)
            IN  /\ lastop'.err = "none"
                /\ to_int(registers'[i.rd], TRUE) = WrapSum(a, b)
                /\ \A r \in Registers \ {i.rd} : registers'[r] = registers[r]
                /\ program_counter' = program_counter + 4
                /\ memory' = memory]_vars

\* add x1, x1, x2 has overwritten its own operand: 2**31 - 1 + 4 wrapped
C16_Witness ==
    /\ lastop.op = "run"
    /\ lastop.instr = RInitialize("add", 1, 1, 2)
    /\ lastop.err = "none"
    /\ registers[2] = Word(4)
    /\ registers[1] = Word(-2147483645)
    /\ program_counter = 4

\* C27: an instruction whose execution fails (unaligned lw or sw address, lw
\* from an absent address, a source or destination register outside 0..31)
\* leaves the machine as it was: every register, every memory cell, pc and
\* the set of protected registers written.
C27_FailureChangesNothing ==
    [][(JustRan(Mnemonics) /\ lastop'.err # "none") =>
            /\ registers' = registers
            /\ memory' = memory
            /\ program_counter' = program_counter
            /\ protected_registers_written' = protected_registers_written
            /\ protected_registers' = protected_registers]_vars

\* add x32, x1, x2 has failed on its destination after x1 was written
C27_Witness ==
    /\ lastop.op = "run"
    /\ lastop.instr = RInitialize("add", 32, 1, 2)
    /\ lastop.err = "Exception: Write to unknown register"
    /\ registers[1] = Word(4)
    /\ program_counter = 0

\* C29: an instruction that executes successfully changes only its own
\* target: add, addi and lw at most register rd and pc, sw at most the memory
\* cell at rs1 + imm and pc, beq, bge and blt only pc; the set of protected
\* registers written changes only by gaining rd when rd is protected.
C29_Frame ==
    [][(JustRan(Mnemonics) /\ lastop'.err = "none") =>
            LET i == lastop'.instr IN
            /\ i.mnemonic \in {"add", "addi", "lw"} =>
                  /\ \A r \in Registers \ {i.rd} : registers'[r] = registers[r]
                  /\ memory' = memory
                  /\ protected_registers_written' =
                        protected_registers_written
                        \cup (IF i.rd \in protected_registers THEN {i.rd} ELSE {})
                  /\ i.rd \in protected_registers => registers' = registers
            /\ i.mnemonic = "sw" =>
                  /\ registers' = registers
                  /\ DOMAIN memory' = DOMAIN memory \cup {EffectiveAddress}
                  /\ \A k \in DOMAIN memory \ {EffectiveAddress} :
                        memory'[k] = memory[k]
                  /\ protected_registers_written' = protected_registers_written
            /\ i.mnemonic \in {"beq", "bge", "blt"} =>
                  /\ registers' = registers
                  /\ memory' = memory
                  /\ protected_registers_written' = protected_registers_written
            /\ DOMAIN registers' = Registers
            /\ protected_registers' = protected_registers]_vars

\* sw x2, -4(x1) with x1 = 4 has stored at address 0 beside the word at 4
C29_Witness ==
    /\ lastop.op = "run"
    /\ lastop.instr = SInitialize("sw", 1, 2, Word(-4))
    /\ lastop.err = "none"
    /\ DOMAIN memory = {0, 4}
    /\ memory[4] = Word(7)
    /\ registers[1] = Word(4)

----------------------------------------------------------------------------
(* Register calls: write_register and read_register with indices inside    *)
(* and on both sides of 0..31.                                             *)

MaxRegOps == 3

IndexSamples == {-2, 0, 1, 31, 32}

RegStep ==
    /\ opcount < MaxRegOps
    /\ opcount' = opcount + 1
    /\ \/ \E index \in IndexSamples, value \in {Word(4), Word(-3)} :
              MachineWriteRegister(index, value)
       \/ \E index \in IndexSamples : MachineReadRegister(index)

RegNext == RegStep /\ UNCHANGED <<intVars, codecVars, progVars>>

\* C24: read_register(i) and write_register(i, v) with i outside 0..31 and
\* not protected fail with the unknown-register error and change no
\* register; write_register(i, v) with an unprotected i in 0..31 makes v the
\* value of register i, which read_register(i) returns from then on, and
\* leaves every other register as it was.
C24_RegisterAccess ==
    [][/\ \A index \in IndexSamples, value \in {Word(4), Word(-3)} :
            (MachineWriteRegister(index, value) /\ index \notin protected_registers) =>
                IF index \in Registers
                THEN /\ lastop'.err = "none"
                     /\ registers'[index] = value
                     /\ \A r \in Registers \ {index} : registers'[r] = registers[r]
                ELSE /\ lastop'.err = "Exception: Write to unknown register"
                     /\ registers' = registers
       /\ \A index \in IndexSamples :
            MachineReadRegister(index) =>
                /\ registers' = registers
                /\ IF index \in Registers
                   THEN lastop'.err = "none" /\ lastop'.bits = registers[index]
                   ELSE /\ lastop'.err = "Exception: Read from unknown register"
                        /\ lastop'.bits = NoBits]_vars

\* -3 was written to register 31 and read back
C24_Witness ==
    /\ opcount >= 2
    /\ lastop.op = "read_register"
    /\ lastop.index = 31
    /\ lastop.err = "none"
    /\ lastop.bits = Word(-3)
    /\ registers[31] = Word(-3)
    /\ registers[1] = Word(0)

----------------------------------------------------------------------------
(* Stores and loads: sw and lw run on a machine between writes of the base *)
(* register x1 and the stored register x2.                                 *)

MaxMemOps == 4

\* sw x2, n(x1) and lw rd, n(x1) with offsets of both signs
OffsetSamples == {Word(0), Word(4), Word(-4)}
StoreSamples == {SInitialize("sw", 1, 2, n) : n \in OffsetSamples}
LoadSamples ==
    {IInitialize("lw", 3, 1, n) : n \in OffsetSamples}
    \cup {IInitialize("lw", 0, 1, Word(0))}

MemStep ==
    /\ opcount < MaxMemOps
    /\ opcount' = opcount + 1
    /\ \/ MachineWriteRegister(1, Word(4))
       \/ \E value \in {Word(-3), Word(2147483647)} : MachineWriteRegister(2, value)
       \/ \E i \in StoreSamples : MachineRun(i)
       \/ \E i \in LoadSamples : MachineRun(i)

MemNext == MemStep /\ UNCHANGED <<intVars, codecVars, progVars>>

\* the lw or sw just run had registers in 0..31 and an aligned address
AlignedAccess(mnemonic) ==
    /\ JustRan({mnemonic})
    /\ lastop'.instr.rs1 \in Registers
    /\ lastop'.instr.mnemonic = "sw" => lastop'.instr.rs2 \in Registers
    /\ EffectiveAddress % 4 = 0

\* C17: the value sw stores at an aligned address A = rs1 + imm (imm of
\* either sign) is what lw with effective address A loads into an unprotected
\* rd in every later state up to the next sw to A, and both advance pc by 4.
\* In steps: sw puts the value of rs2 at A and leaves the other cells; no
\* other call changes a cell; lw loads the cell at A as it is.
C17_StoreThenLoad ==
    [][/\ AlignedAccess("sw") =>
            /\ lastop'.err = "none"
            /\ DOMAIN memory' = DOMAIN memory \cup {EffectiveAddress}
            /\ memory'[EffectiveAddress] = registers[lastop'.instr.rs2]
            /\ \A k \in DOMAIN memory \ {EffectiveAddress} : memory'[k] = memory[k]
            /\ registers' = registers
            /\ program_counter' = program_counter + 4
       /\ ~AlignedAccess("sw") => memory' = memory
       /\ (/\ AlignedAccess("lw")
           /\ EffectiveAddress \in DOMAIN memory
           /\ lastop'.instr.rd \in Registers \ protected_registers) =>
            /\ lastop'.err = "none"
            /\ registers'[lastop'.instr.rd] = memory[EffectiveAddress]
            /\ \A r \in Registers \ {lastop'.instr.rd} : registers'[r] = registers[r]
            /\ program_counter' = program_counter + 4]_vars

\* sw x2, 0(x1) stored -3 at address 0; x1 was then set to 4 and
\* lw x3, -4(x1) has loaded the -3 from address 0
C17_Witness ==
    /\ opcount = 4
    /\ lastop.op = "run"
    /\ lastop.instr = IInitialize("lw", 3, 1, Word(-4))
    /\ lastop.err = "none"
    /\ registers[1] = Word(4)
    /\ 0 \in DOMAIN memory
    /\ memory[0] = Word(-3)
    /\ registers[3] = Word(-3)
    /\ program_counter = 8

----------------------------------------------------------------------------
(* RiscInstruction.parse (instruction.py).                                 *)

\* locations[name] = value
SetLocation(locs, name, value) == (name :> value) @@ locs

\* what the first loop of parse has built
FirstPass(locs, kept, off) ==
    [locations |-> locs, lines_without_labels |-> kept, offset |-> off]

FirstCleanedCounting(line, st) ==
    IF line = <<>> THEN st
    ELSE IF IsLabel(line)
    THEN FirstPass(SetLocation(st.locations, SubSeq(line, 1, Len(line) - 1),
                               Word(st.offset)),
                   st.lines_without_labels, st.offset + 4)
    ELSE FirstPass(st.locations, Append(st.lines_without_labels, line),
                   st.offset + 4)

\* one iteration of the first loop of parse, line being the source line
\* without its comment and stripped
FirstCleaned(line, st) ==
    IF line = <<>> THEN st
    ELSE IF IsLabel(line)
    THEN FirstPass(SetLocation(st.locations, SubSeq(line, 1, Len(line) - 1),
                               Word(st.offset)),
                   st.lines_without_labels, st.offset)
    ELSE FirstPass(st.locations, Append(st.lines_without_labels, line),
                   st.offset + 4)

\* one iteration of the first loop of parse
FirstLine(raw, st) == FirstCleaned(Strip(StripComment(raw)), st)

\* the first loop of parse over source[k..]
RECURSIVE FirstLoop(_, _, _)
FirstLoop(source, k, st) ==
    IF k > Len(source) THEN st
    ELSE FirstLoop(source, k + 1, FirstLine(source[k], st))

\* how parse ended: the exception, the text it names, the index in
\* lines_without_labels of the line that raised it, and the list returned
Assembled(e, detail, at, list) ==
    [err |-> e, detail |-> detail, at |-> at, instructions |-> list]

RECURSIVE SecondLoop(_, _, _, _)

\* one iteration of the second loop of parse, r being what parse_line gave
SecondLine(kept, locs, i, list, r) ==
    IF r.err # "none" THEN Assembled(r.err, r.detail, i, <<>>)
    ELSE SecondLoop(kept, locs, i + 1,
                    IF r.instr = NoInstr THEN list ELSE Append(list, r.instr))

\* the second loop of parse over kept[i..], i counted from 0
SecondLoop(kept, locs, i, list) ==
    IF i >= Len(kept) THEN Assembled("none", <<>>, -1, list)
    ELSE SecondLine(kept, locs, i, list,
                    parse_line(kept[i + 1], locs, Word(i * 4)))

NoError == [err |-> "none", detail |-> <<>>, at |-> -1]

\* no source has been handed to the assembler
AsmIdle ==
    /\ lines = <<>>
    /\ astage = "idle"
    /\ locations = <<>>
    /\ lines_without_labels = <<>>
    /\ offset = 0
    /\ aerr = NoError

\* RiscInstruction.parse has been called with source
AsmCalled(source) ==
    /\ lines = source
    /\ astage = "source"
    /\ locations = <<>>
    /\ lines_without_labels = <<>>
    /\ offset = 0
    /\ aerr = NoError

\* what parse leaves: the outcome r of its second loop after the first
Outcomes(st, r) ==
    [first |-> st, err |-> r.err, detail |-> r.detail, at |-> r.at,
     instructions |-> r.instructions]

\* the second loop of parse run on what the first one built
Second(st) ==
    Outcomes(st, SecondLoop(st.lines_without_labels, st.locations, 0, <<>>))

\* RiscInstruction.parse(source), to its return or its exception
Assemble(source) == Second(FirstLoop(source, 1, FirstPass(<<>>, <<>>, 0)))

\* parse has ended as r says
Returns(r) ==
    /\ locations' = r.first.locations
    /\ lines_without_labels' = r.first.lines_without_labels
    /\ offset' = r.first.offset
    /\ aerr' = [err |-> r.err, detail |-> r.detail, at |-> r.at]
    /\ astage' = IF r.err = "none" THEN "parsed" ELSE "failed"
    /\ instructions' = r.instructions
    /\ UNCHANGED lines

\* the call RiscInstruction.parse(lines) is made
Parse == Returns(Assemble(lines))

\* the decimal numeral of n >= 0
RECURSIVE Decimal(_)
Decimal(n) ==
    IF n < 10 THEN <<DigitSeq[n + 1]>>
    ELSE Decimal(n \div 10) \o <<DigitSeq[(n % 10) + 1]>>

\* the register name xN
X(n) == <<"x">> \o Decimal(n)

\* the line 'm a, b, c'
Text3(m, a, b, c) ==
    MnemonicText(m) \o <<" ">> \o a \o <<",", " ">> \o b \o <<",", " ">> \o c

\* the line 'name:'
LabelLine(name) == name \o <<":">>

LoopText == <<"l", "o", "o", "p">>
CheckText == <<"c", "h", "e", "c", "k">>
ExitText == <<"e", "x", "i", "t">>

\* the longest source assembled
MaxLines == 3

\* source lines: instructions, branches to labels and to literal offsets,
\* label declarations, comments, blanks, and a line that does not assemble
LineSamples ==
    { <<"A", "D", "D", "I">> \o <<" ">> \o X(1) \o <<",", " ">> \o X(0)
          \o <<",", " ">> \o <<"5">>,
      Text3("beq", X(0), X(0), LoopText),
      <<" ", "\t">> \o Text3("blt", X(0), X(1), ExitText)
          \o <<" ", ";", " ", "g", "o">>,
      Text3("bge", X(1), X(0), <<"-", "4">>),
      LabelLine(LoopText),
      LabelLine(ExitText) \o <<" ", " ", "/", "/", " ", "e", "n", "d">>,
      <<"#", " ", "n", "o", "t", "e">>,
      <<"n", "o", "p", " ", "x", "1">> }

RECURSIVE SeqsUpTo(_, _)
SeqsUpTo(S, n) ==
    IF n = 0 THEN {<<>>}
    ELSE LET shorter == SeqsUpTo(S, n - 1)
         IN  shorter \cup {Append(q, x) : q \in {r \in shorter : Len(r) = n - 1},
                                          x \in S}

SourceSamples == SeqsUpTo(LineSamples, MaxLines)

\* no simulator has been constructed
SimIdle ==
    /\ instructions = <<>>
    /\ simstate = "idle"
    /\ steps = 0
    /\ finput = -1

AsmInit ==
    \E source \in SourceSamples : AsmCalled(source)

AsmParse ==
    /\ astage = "source"
    /\ Parse
    /\ UNCHANGED <<simstate, steps, finput>>

AsmNext == AsmParse /\ UNCHANGED <<intVars, codecVars, machineVars>>

----------------------------------------------------------------------------
(* Properties of the assembler, checked under SpecAsm.                     *)

\* line k of the source without its comment and surrounding blanks
Cleaned(k) == Strip(StripComment(lines[k]))

\* line k of the source is neither blank nor a label declaration
IsInstructionLine(k) == Cleaned(k) # <<>> /\ ~IsLabel(Cleaned(k))

\* the byte offset of line k: four for every instruction line before it
ByteOffsetOf(k) == 4 * Cardinality({j \in 1..(k - 1) : IsInstructionLine(j)})

\* line k is an SB-type instruction whose target is the label name
Names(k, name) ==
    \E m \in {"beq", "bge", "blt"}, a, b \in {0, 1} :
        Cleaned(k) = Text3(m, X(a), X(b), name)

\* the lines that declare the label name
Declarations(name) == {j \in DOMAIN lines : Cleaned(j) = LabelLine(name)}

\* C7: an SB-type instruction at byte offset p that names a label declared
\* somewhere in the source, before or after it, at byte offset q assembles
\* with q - p as its offset field; when the label is declared nowhere the
\* assembly fails, and the error raised at that instruction is the parse
\* error that names the label.
C7_LabelResolution ==
    astage \in {"parsed", "failed"} =>
        \A k \in DOMAIN lines, name \in {LoopText, ExitText} :
            Names(k, name) =>
                LET p == ByteOffsetOf(k) IN
                IF Declarations(name) = {}
                THEN /\ astage = "failed"
                     /\ aerr.at * 4 <= p
                     /\ aerr.at * 4 = p =>
                          /\ aerr.err =
                               "RiscParseException: Unable to resolve location"
                          /\ aerr.detail = name
                ELSE /\ astage = "failed" => aerr.at * 4 # p
                     /\ astage = "parsed" =>
                          \E j \in Declarations(name) :
                              instructions[(p \div 4) + 1].offset =
                                  Word(ByteOffsetOf(j) - p)

\* a forward reference resolved: 'beq x0, x0, loop' two instructions before
\* 'loop:'
C7_Witness ==
    /\ astage = "parsed"
    /\ lines = << Text3("beq", X(0), X(0), LoopText),
                  Text3("bge", X(1), X(0), <<"-", "4">>),
                  LabelLine(LoopText) >>
    /\ instructions[1].offset = Word(8)

\* the indices of the instruction lines of the source, in source order
InstructionLines ==
    SelectSeq([k \in DOMAIN lines |-> k], IsInstructionLine)

\* the last line that declares the label name
LastDeclaration(name) ==
    CHOOSE j \in Declarations(name) : \A k \in Declarations(name) : k <= j

\* C18: after the first pass over the source every declared label, and no
\* other name, maps to 4 times the number of instruction lines before its
\* declaration (the last one if it is declared again), label, blank and
\* comment-only lines not advancing the offset; the program returned consists
\* of exactly the instruction lines in source order, instruction i being
\* assembled at offset 4*i.
C18_FirstPass ==
    astage \in {"parsed", "failed"} =>
        /\ DOMAIN locations =
              {name \in {LoopText, ExitText} : Declarations(name) # {}}
        /\ \A name \in DOMAIN locations :
              locations[name] = Word(ByteOffsetOf(LastDeclaration(name)))
        /\ offset = 4 * Len(InstructionLines)
        /\ lines_without_labels =
              [i \in DOMAIN InstructionLines |-> Cleaned(InstructionLines[i])]
        /\ astage = "parsed" =>
              /\ Len(instructions) = Len(InstructionLines)
              /\ \A i \in DOMAIN InstructionLines :
                    /\ ByteOffsetOf(InstructionLines[i]) = 4 * (i - 1)
                    /\ instructions[i] =
                          parse_line(Cleaned(InstructionLines[i]), locations,
                                     Word(4 * (i - 1))).instr

\* a label after the last instruction, behind a comment line: exit maps to
\* 4 * len(program)
C18_Witness ==
    /\ astage = "parsed"
    /\ lines = << <<"A", "D", "D", "I">> \o <<" ">> \o X(1) \o <<",", " ">>
                      \o X(0) \o <<",", " ">> \o <<"5">>,
                  <<"#", " ", "n", "o", "t", "e">>,
                  LabelLine(ExitText) \o <<" ", " ", "/", "/", " ", "e", "n", "d">> >>
    /\ Len(instructions) = 1
    /\ locations[ExitText] = Word(4)

----------------------------------------------------------------------------
(* Loads and stores assembled from one-line sources.                       *)

\* the numeral of n with its sign
Numeral(n) == IF n < 0 THEN <<"-">> \o Decimal(0 - n) ELSE Decimal(n)

\* the line 'm xA, N(xB)', the form lw and sw print
MemoryText(m, a, n, b) ==
    MnemonicText(m) \o <<" ">> \o X(a) \o <<",", " ">> \o Numeral(n)
    \o <<"(">> \o X(b) \o <<")">>

MemoryRegs == {0, 5, 31}
MemoryOffsets == {0, 4, -8, 2047}

\* lw and sw in the printed form, and lw in the form of addi
MemoryLines ==
    {MemoryText(m, a, n, b) :
        m \in {"lw", "sw"}, a \in MemoryRegs, n \in MemoryOffsets, b \in MemoryRegs}
    \cup {Text3("lw", X(a), X(b), Numeral(n)) :
            a \in MemoryRegs, b \in MemoryRegs, n \in MemoryOffsets}

MemoryLineInit ==
    \E line \in MemoryLines : AsmCalled(<<line>>)

\* C21: the source line 'lw xD, N(xB)' assembles to the lw instruction with
\* rd = D, rs1 = B and immediate N, just as 'sw xS, N(xB)' assembles to the sw
\* instruction with rs2 = S, rs1 = B and immediate N.
C21_LoadWordAssembles ==
    astage \in {"parsed", "failed"} =>
        \A a \in MemoryRegs, n \in MemoryOffsets, b \in MemoryRegs :
            /\ lines = <<MemoryText("lw", a, n, b)>> =>
                  /\ astage = "parsed"
                  /\ instructions = <<IInitialize("lw", a, b, Word(n))>>
            /\ lines = <<MemoryText("sw", a, n, b)>> =>
                  /\ astage = "parsed"
                  /\ instructions = <<SInitialize("sw", b, a, Word(n))>>

----------------------------------------------------------------------------
(* RiscSimulator (riscv/simulator.py).                                     *)

\* list[index] of Python: a negative index counts from the end of the list
Fetch(list, index) ==
    IF index >= Len(list) \/ index < 0 - Len(list)
    THEN [err |-> "IndexError: list index out of range", instr |-> NoInstr]
    ELSE [err |-> "none",
          instr |-> list[(IF index < 0 THEN index + Len(list) ELSE index) + 1]]

\* RiscSimulator(instructions: List[RiscInstruction]) has been called
SimConstructed(program) ==
    /\ instructions = program
    /\ simstate = "ready"
    /\ steps = 0
    /\ finput = -1

\* simulate() is called
Simulate ==
    /\ simstate \in {"ready", "halted"}
    /\ simstate' = "running"
    /\ UNCHANGED <<instructions, steps, finput, machineVars>>

FetchAt(pc) == Fetch(instructions, (pc \div 4) + 1)

\* instructions[program_counter >> 2]
FetchNext(pc) == Fetch(instructions, pc \div 4)

\* the instruction fetched has run with outcome o
Ran(instr, o) ==
    /\ Becomes(o.m)
    /\ lastop' = LastOp("run", instr, NoReg, o)
    /\ simstate' = IF o.err = "none" THEN "running" ELSE "error"

\* the fetch f has been made: it raised, or the instruction runs
Fetched(f) ==
    IF f.err # "none"
    THEN /\ simstate' = "error"
         /\ lastop' = [NoOp EXCEPT !.op = "fetch", !.err = f.err]
         /\ UNCHANGED <<registers, program_counter, memory,
                        protected_registers, protected_registers_written>>
    ELSE Ran(f.instr, Run(f.instr, Machine, protected_registers))

\* one iteration of the loop of simulate: the test has passed; the fetch or
\* the instruction may raise, which ends simulate
Iteration ==
    /\ simstate = "running"
    /\ program_counter < Len(instructions) * 4
    /\ Fetched(FetchNext(program_counter))
    /\ steps' = steps + 1
    /\ UNCHANGED <<instructions, finput, opcount>>

\* the test of the loop of simulate fails and simulate returns
Halt ==
    /\ simstate = "running"
    /\ program_counter >= Len(instructions) * 4
    /\ simstate' = "halted"
    /\ UNCHANGED <<instructions, steps, finput, machineVars>>

\* the longest program run and the most iterations followed
MaxProgram == 2
MaxSteps == 5

\* instruction objects: arithmetic, a store and a load that may fail, and
\* branches forwards, backwards and in place
InstructionSamples ==
    { IInitialize("addi", 1, 1, Word(1)),
      RInitialize("add", 2, 1, 1),
      IInitialize("lw", 3, 1, Word(0)),
      SInitialize("sw", 0, 1, Word(0)),
      SBInitialize("beq", 0, 0, Word(-4)),
      SBInitialize("blt", 1, 2, Word(8)),
      SBInitialize("bge", 0, 1, Word(0)) }

ProgramSamples == SeqsUpTo(InstructionSamples, MaxProgram)

SimInit ==
    /\ \E program \in ProgramSamples : SimConstructed(program)
    /\ MachineConstructed(<<>>, {0})
    /\ opcount = 0

SimStep == steps < MaxSteps /\ Iteration

SimNext ==
    \/ Simulate /\ UNCHANGED <<intVars, codecVars, asmVars>>
    \/ SimStep /\ UNCHANGED <<intVars, codecVars, asmVars>>
    \/ Halt /\ UNCHANGED <<intVars, codecVars, asmVars>>

----------------------------------------------------------------------------
(* Properties of the simulator, checked under SpecSim.                     *)

\* an iteration of the loop ran an instruction
Executes == steps' = steps + 1 /\ lastop'.op = "run"

\* C8: simulate runs an instruction only while pc < 4 * len(program), and
\* then the instruction at index pc / 4 of the program; it returns exactly
\* when pc >= 4 * len(program), which is the only way it returns; after it
\* has returned the machine does not change.
C8_RunLoop ==
    [][ /\ Executes =>
            /\ program_counter < 4 * Len(instructions)
            /\ (program_counter \div 4) \in 0..(Len(instructions) - 1)
            /\ lastop'.instr = instructions[(program_counter \div 4) + 1]
        /\ (simstate = "running" /\ simstate' = "halted") =>
            program_counter >= 4 * Len(instructions)
        /\ (simstate = "running"
              /\ program_counter >= 4 * Len(instructions)) =>
            simstate' = "halted"
        /\ simstate = "halted" =>
            UNCHANGED <<registers, program_counter, memory,
                        protected_registers_written>>
      ]_vars

\* C23: in every state reached by simulate() from the initial machine, for
\* any program of the seven instructions, the program counter is a
\* non-negative integer.
C23_NonNegativePc == program_counter >= 0

----------------------------------------------------------------------------
(* The fibonacci test (tests/test_simulator.py).                           *)

\* range(20)
FibMax == 19

\* fib_rec of the test
RECURSIVE fib_rec(_)
fib_rec(n) ==
    IF n = 0 THEN 0
    ELSE IF n = 1 THEN 1
    ELSE fib_rec(n - 1) + fib_rec(n - 2)

\* the list `instructions` of the test
FibProgram ==
    << Text3("addi", X(2), X(0), <<"1">>),
       Text3("addi", X(3), X(0), <<"0">>),
       Text3("addi", X(4), X(0), <<"1">>),
       Text3("blt", X(0), X(1), CheckText),
       Text3("addi", X(2), X(0), <<"0">>),
       Text3("blt", X(0), X(1), ExitText),
       LabelLine(LoopText),
       Text3("add", X(5), X(2), X(3)),
       Text3("add", X(3), X(0), X(2)),
       Text3("add", X(2), X(0), X(5)),
       Text3("addi", X(4), X(4), <<"1">>),
       LabelLine(CheckText),
       Text3("blt", X(4), X(1), LoopText),
       LabelLine(ExitText) >>

\* RiscSimulator(instructions: List[str]) has been called and parse has
\* ended as r says, then s.machine.registers[1] = RiscInteger(value)
ConstructedFromText(source, r, value) ==
    /\ lines = source
    /\ astage = IF r.err = "none" THEN "parsed" ELSE "failed"
    /\ locations = r.first.locations
    /\ lines_without_labels = r.first.lines_without_labels
    /\ offset = r.first.offset
    /\ aerr = [err |-> r.err, detail |-> r.detail, at |-> r.at]
    /\ instructions = r.instructions
    /\ simstate = IF r.err = "none" THEN "ready" ELSE "error"
    /\ steps = 0
    /\ finput = value
    /\ registers = [i \in Registers |-> IF i = 1 THEN Word(value) ELSE Word(0)]
    /\ program_counter = 0
    /\ memory = <<>>
    /\ protected_registers = {0}
    /\ protected_registers_written = {}
    /\ lastop = NoOp
    /\ opcount = 0

\* the test has constructed the simulator from the list and set x1
FibInit ==
    \E value \in 0..FibMax :
        ConstructedFromText(FibProgram, Assemble(FibProgram), value)

\* s.simulate()
FibSimulate == simstate = "ready" /\ Simulate

FibNext ==
    \/ FibSimulate /\ UNCHANGED <<intVars, codecVars, asmVars>>
    \/ Iteration /\ UNCHANGED <<intVars, codecVars, asmVars>>
    \/ Halt /\ UNCHANGED <<intVars, codecVars, asmVars>>

\* C9: the fibonacci program of the test, assembled and run with x1 = n for
\* any n in 0..19, terminates, and from then on x2 holds fib(n).
C9_Fibonacci ==
    <>[](IF simstate = "halted"
         THEN registers[2] = Word(fib_rec(finput))
         ELSE FALSE)

\* the run for n = 19 has ended with x2 = 4181
C9_Witness ==
    /\ simstate = "halted"
    /\ finput = FibMax
    /\ registers[2] = Word(4181)

----------------------------------------------------------------------------
(* Programs assembled from text whose branches name labels, then run.      *)

\* the longest source and the most iterations followed
MaxLabelledLines == 3
MaxLabelledSteps == 6

\* a countdown step, branches to the labels loop and exit, the labels, and
\* a store that fails
LabelledLines ==
    { Text3("addi", X(1), X(1), <<"-", "1">>),
      Text3("blt", X(0), X(1), LoopText),
      Text3("beq", X(0), X(0), ExitText),
      LabelLine(LoopText),
      LabelLine(ExitText),
      MemoryText("sw", 1, 2, 0) }

\* RiscSimulator(source) with x1 set to 0 or 2
LabelledInit ==
    \E source \in SeqsUpTo(LabelledLines, MaxLabelledLines), value \in {0, 2} :
        ConstructedFromText(source, Assemble(source), value)

LabelledStep == steps < MaxLabelledSteps /\ Iteration

LabelledNext ==
    \/ FibSimulate /\ UNCHANGED <<intVars, codecVars, asmVars>>
    \/ LabelledStep /\ UNCHANGED <<intVars, codecVars, asmVars>>
    \/ Halt /\ UNCHANGED <<intVars, codecVars, asmVars>>

\* C28: for a program assembled from text in which every branch target is a
\* declared label, every state reached by simulate() has pc a multiple of 4
\* with 0 <= pc <= 4 * len(program), so that every fetch index pc / 4 is
\* within the program, and when simulate() returns pc is 4 * len(program).
C28_PcWithinProgram ==
    astage = "parsed" =>
        /\ program_counter % 4 = 0
        /\ program_counter >= 0
        /\ program_counter <= 4 * Len(instructions)
        /\ (simstate = "running" /\ program_counter < 4 * Len(instructions)) =>
              /\ (program_counter \div 4) + 1 \in DOMAIN instructions
              /\ FetchNext(program_counter).err = "none"
        /\ simstate = "halted" => program_counter = 4 * Len(instructions)

\* the countdown from 2 went round its loop and has ended
C28_Witness ==
    /\ lines = << LabelLine(LoopText),
                  Text3("addi", X(1), X(1), <<"-", "1">>),
                  Text3("blt", X(0), X(1), LoopText) >>
    /\ finput = 2
    /\ simstate = "halted"
    /\ steps = 4
    /\ registers[1] = Word(0)
    /\ program_counter = 8

----------------------------------------------------------------------------
(* Termination: programs of forward, backward and in-place branches run    *)
(* without a useful bound on the iterations.                               *)

MaxTermProgram == 3

\* more iterations than a program of forward branches can make
TermSteps == 4 * MaxTermProgram + 2

\* an increment, a load that fails, and branches that are always taken:
\* forwards by 8 and by 2, backwards by 4 and in place
TermSamples ==
    { IInitialize("addi", 1, 1, Word(1)),
      IInitialize("lw", 3, 0, Word(0)),
      SBInitialize("beq", 0, 0, Word(8)),
      SBInitialize("beq", 0, 0, Word(2)),
      SBInitialize("beq", 0, 0, Word(-4)),
      SBInitialize("beq", 0, 0, Word(0)) }

TermInit ==
    /\ \E program \in SeqsUpTo(TermSamples, MaxTermProgram) :
          SimConstructed(program)
    /\ MachineConstructed(<<>>, {0})
    /\ opcount = 0

TermStep == steps < TermSteps /\ Iteration

TermNext ==
    \/ FibSimulate /\ UNCHANGED <<intVars, codecVars, asmVars>>
    \/ TermStep /\ UNCHANGED <<intVars, codecVars, asmVars>>
    \/ Halt /\ UNCHANGED <<intVars, codecVars, asmVars>>

IsBranch(i) == i.mnemonic \in {"beq", "bge", "blt"}

\* every branch of the program has a strictly positive signed offset
AllForward ==
    \A k \in DOMAIN instructions :
        IsBranch(instructions[k]) =>
            PyLess(Py(0), to_int(instructions[k].offset, TRUE))

\* the machine after one more iteration of simulate(); an iteration that
\* raises leaves it as it is
Stepped(m, f) ==
    IF f.err # "none" THEN m
    ELSE Run(f.instr, m, protected_registers).m

\* the machines before each of n more iterations of simulate(), and after
\* the last, ms being those up to the current one
RECURSIVE Replay(_, _)
Replay(ms, n) ==
    IF n = 0 THEN ms
    ELSE Replay(Append(ms, Stepped(ms[Len(ms)],
                                   FetchNext(ms[Len(ms)].program_counter))),
                n - 1)

\* the machines of the run so far, from the initial machine
Machines ==
    Replay(<<MachineState([i \in Registers |-> Word(0)], 0, <<>>, {})>>, steps)

\* the instructions executed in the run ms
Executed(ms) ==
    {FetchNext(ms[n].program_counter).instr : n \in 1..(Len(ms) - 1)}

\* a branch of x0 against x0, whose condition (equal, or greater or equal)
\* holds in every state, with an offset in offsets
ConstantBranch(i, offsets) ==
    /\ i.mnemonic \in {"beq", "bge"}
    /\ i.rs1 = 0 /\ i.rs2 = 0
    /\ i.offset \in offsets

\* when every branch has a strictly positive offset, pc has strictly
\* increased at every executed instruction of the run ms and at most
\* 4 * len(program) instructions are executed: the loop of simulate(), which
\* executes one instruction per iteration, ends by returning or by an
\* exception
ForwardTerminates(ms) ==
    AllForward =>
        /\ simstate # "error" =>
              /\ ms[Len(ms)].program_counter = program_counter
              /\ \A n \in 2..Len(ms) :
                    ms[n].program_counter > ms[n - 1].program_counter
        /\ steps <= 4 * Len(instructions)
        /\ steps = 4 * Len(instructions) =>
              \/ simstate \in {"halted", "error"}
              \/ program_counter >= 4 * Len(instructions)

HaltsNever(ms, offsets) ==
    (\E i \in Executed(ms) : ConstantBranch(i, offsets)) => simstate # "halted"

RepeatsInPlace(ms) ==
    (\E i \in Executed(ms) : ConstantBranch(i, {Word(0)})) =>
        /\ simstate = "running"
        /\ lastop.op = "run"
        /\ ConstantBranch(lastop.instr, {Word(0)})
        /\ program_counter < 4 * Len(instructions)
        /\ FetchNext(program_counter).instr = lastop.instr

\* C30 as stated: forward branches only make simulate() end within
\* 4 * len(program) instructions, and when a branch with an offset <= 0 whose
\* condition holds for ever has been executed, simulate() never returns.
C30_Termination ==
    LET ms == Machines
    IN  ForwardTerminates(ms) /\ HaltsNever(ms, {Word(0), Word(-4)})

\* C30 amended: forward branches only make simulate() end within
\* 4 * len(program) instructions, and when a branch with offset 0 whose
\* condition holds for ever has been executed, it is executed again for ever
\* and simulate() never returns.
C30_TerminationInPlace ==
    LET ms == Machines
    IN  ForwardTerminates(ms) /\ RepeatsInPlace(ms)

\* beq x0, x0, 0 behind an addi has been run over and over
C30_Witness ==
    /\ instructions = << IInitialize("addi", 1, 1, Word(1)),
                         SBInitialize("beq", 0, 0, Word(0)) >>
    /\ simstate = "running"
    /\ steps = TermSteps
    /\ program_counter = 4
    /\ ConstantBranch(lastop.instr, {Word(0)})

----------------------------------------------------------------------------
(* The specifications.                                                     *)

InitInt == IntInit /\ CodecIdle /\ MachineIdle /\ AsmIdle /\ SimIdle

SpecInt == InitInt /\ [][IntNext]_vars

InitCodec == IntIdle /\ CodecInit /\ MachineIdle /\ AsmIdle /\ SimIdle

SpecCodec == InitCodec /\ [][CodecNext]_vars

InitMachine == IntIdle /\ CodecIdle /\ MachineInit /\ AsmIdle /\ SimIdle

SpecMachine == InitMachine /\ [][MachineNext]_vars

InitAsm == IntIdle /\ CodecIdle /\ MachineIdle /\ AsmInit /\ SimIdle

SpecAsm == InitAsm /\ [][AsmNext]_vars

InitSim == IntIdle /\ CodecIdle /\ AsmIdle /\ SimInit

SpecSim == InitSim /\ [][SimNext]_vars

InitFib == IntIdle /\ CodecIdle /\ FibInit

\* the test runs to its end: no step that can be taken is put off for ever
SpecFib == InitFib /\ [][FibNext]_vars /\ WF_vars(FibNext)

InitPattern == PatternInit /\ CodecIdle /\ MachineIdle /\ AsmIdle /\ SimIdle

SpecPattern == InitPattern /\ [][PatternNext]_vars

InitShift == ShiftInit /\ CodecIdle /\ MachineIdle /\ AsmIdle /\ SimIdle

SpecShift == InitShift /\ [][ShiftNext]_vars

InitMemory == IntIdle /\ CodecIdle /\ MachineInit /\ AsmIdle /\ SimIdle

SpecMemory == InitMemory /\ [][MemNext]_vars

InitMemoryLine ==
    IntIdle /\ CodecIdle /\ MachineIdle /\ MemoryLineInit /\ SimIdle

SpecMemoryLine == InitMemoryLine /\ [][AsmNext]_vars

InitNegSub == IntInit /\ CodecIdle /\ MachineIdle /\ AsmIdle /\ SimIdle

SpecNegSub == InitNegSub /\ [][NegSubNext]_vars

InitRegisters == IntIdle /\ CodecIdle /\ MachineInit /\ AsmIdle /\ SimIdle

SpecRegisters == InitRegisters /\ [][RegNext]_vars

InitPlain == IntIdle /\ CodecInit /\ MachineIdle /\ AsmIdle /\ SimIdle

SpecPlain == InitPlain /\ [][PlainNext]_vars

InitLabelled == IntIdle /\ CodecIdle /\ LabelledInit

SpecLabelled == InitLabelled /\ [][LabelledNext]_vars

InitTerm == IntIdle /\ CodecIdle /\ AsmIdle /\ TermInit

SpecTerm == InitTerm /\ [][TermNext]_vars

Spec == SpecMachine

====
